---------------------------- MODULE Spec2Model ----------------------------
(***************************************************************************)
(* Country-club data pipeline: source providers (web_scraper.py,           *)
(* fallback_data.py), enrichment (CountryClubScraper.enhance_club_data),   *)
(* aggregation/dedup (get_comprehensive_club_data), normalisation          *)
(* (clean_and_validate_data) and the loader (load_country_clubs_data).     *)
(*                                                                         *)
(* Strings are sequences of tokens.  A token is one character ("c", " ",   *)
(* "$", "7") or an opaque run of characters that no operation of the       *)
(* pipeline looks inside ("Oak Club", "https://").  A Python value is a     *)
(* record [t, n, s]: t is its type, n its number, s its characters.        *)
(***************************************************************************)
EXTENDS Integers, Sequences, FiniteSets, TLC

VARIABLES
    pc,             \* where the call of load_country_clubs_data stands
    scraper_ok,     \* whether CountryClubScraper() can be constructed
    all_clubs,      \* get_comprehensive_club_data: the records collected
    url_i,          \* scrape_private_clubs_with_ai: the next URL
    df,             \* load_country_clubs_data: its local table
    result,         \* the table returned to the caller
    caught,         \* the exception the except clause is handling
    err,            \* the exception raised to the caller
    calls,          \* the calls of the two sources so far, with their outcomes
    club_data,      \* enhance_club_data: the record passed in
    enhanced1,      \* enhance_club_data(club_data)
    enhanced2,      \* enhance_club_data(enhanced1)
    source_table,   \* the table the last source call returned
    scrape_log,     \* scrape_private_clubs_with_ai: what each iteration did
    clean_in,       \* clean_and_validate_data: the table passed in
    clean_out,      \* clean_and_validate_data(clean_in)
    clean_out2      \* clean_and_validate_data(clean_out)

vars == <<pc, scraper_ok, all_clubs, url_i, df, result, caught, err,
          calls, club_data, enhanced1, enhanced2, source_table, scrape_log,
          clean_in, clean_out, clean_out2>>

-----------------------------------------------------------------------------
(* Python values *)

PyInt(n) == [t |-> "int", n |-> n, s |-> <<>>]
PyStr(s) == [t |-> "str", n |-> 0, s |-> s]
(* a parsed float of a numeric DataFrame column *)
PyNum(n) == [t |-> "num", n |-> n, s |-> <<>>]
(* the missing value of a DataFrame cell *)
NaN == [t |-> "nan", n |-> 0, s |-> <<>>]
(* a non-empty, unhashable JSON value (array or object) *)
ListVal == [t |-> "list", n |-> 0, s |-> <<>>]

(* Python truthiness: `not v` *)
Falsy(v) ==
    \/ v.t = "int" /\ v.n = 0
    \/ v.t = "num" /\ v.n = 0
    \/ v.t = "str" /\ v.s = <<>>

-----------------------------------------------------------------------------
(* str methods *)

Whitespace == {" "}

RECURSIVE LStrip(_)
LStrip(s) ==
    IF s # <<>> /\ Head(s) \in Whitespace THEN LStrip(Tail(s)) ELSE s

RECURSIVE RStrip(_)
RStrip(s) ==
    IF s # <<>> /\ s[Len(s)] \in Whitespace
    THEN RStrip(SubSeq(s, 1, Len(s) - 1))
    ELSE s

(* str.strip() *)
Strip(s) == RStrip(LStrip(s))

UpperMap ==
    [c \in {"a","b","c","d","e","f","g","h","i","j","k","l","m",
            "n","o","p","q","r","s","t","u","v","w","x","y","z"} |->
        CASE c = "a" -> "A" [] c = "b" -> "B" [] c = "c" -> "C"
          [] c = "d" -> "D" [] c = "e" -> "E" [] c = "f" -> "F"
          [] c = "g" -> "G" [] c = "h" -> "H" [] c = "i" -> "I"
          [] c = "j" -> "J" [] c = "k" -> "K" [] c = "l" -> "L"
          [] c = "m" -> "M" [] c = "n" -> "N" [] c = "o" -> "O"
          [] c = "p" -> "P" [] c = "q" -> "Q" [] c = "r" -> "R"
          [] c = "s" -> "S" [] c = "t" -> "T" [] c = "u" -> "U"
          [] c = "v" -> "V" [] c = "w" -> "W" [] c = "x" -> "X"
          [] c = "y" -> "Y" [] c = "z" -> "Z"]

(* str.upper() *)
Upper(s) ==
    [i \in 1..Len(s) |-> IF s[i] \in DOMAIN UpperMap THEN UpperMap[s[i]] ELSE s[i]]

(* str.replace(old, '') for a one-character old *)
Remove(s, old) == SelectSeq(s, LAMBDA c : c # old)

Digits == {"0","1","2","3","4","5","6","7","8","9"}

DigitVal(c) ==
    CASE c = "0" -> 0 [] c = "1" -> 1 [] c = "2" -> 2 [] c = "3" -> 3
      [] c = "4" -> 4 [] c = "5" -> 5 [] c = "6" -> 6 [] c = "7" -> 7
      [] c = "8" -> 8 [] c = "9" -> 9

DigitChar(d) ==
    CASE d = 0 -> "0" [] d = 1 -> "1" [] d = 2 -> "2" [] d = 3 -> "3"
      [] d = 4 -> "4" [] d = 5 -> "5" [] d = 6 -> "6" [] d = 7 -> "7"
      [] d = 8 -> "8" [] d = 9 -> "9"

RECURSIVE NatStr(_)
NatStr(n) ==
    IF n < 10 THEN <<DigitChar(n)>> ELSE Append(NatStr(n \div 10), DigitChar(n % 10))

(* str(n) of an int *)
IntStr(n) == IF n < 0 THEN <<"-">> \o NatStr(0 - n) ELSE NatStr(n)

(* astype(str) of one cell *)
AsStr(v) ==
    CASE v.t = "str" -> v.s
      [] v.t = "int" -> IntStr(v.n)
      [] v.t = "num" -> IntStr(v.n) \o <<".", "0">>
      [] v.t = "nan" -> <<"nan">>
      [] v.t = "list" -> <<"[]">>

RECURSIVE DigitsValTo(_, _)
(* the number written by the first k digits of s *)
DigitsValTo(s, k) ==
    IF k = 0 THEN 0 ELSE 10 * DigitsValTo(s, k - 1) + DigitVal(s[k])

DigitsVal(s) == DigitsValTo(s, Len(s))

AllDigits(s) == s # <<>> /\ \A i \in 1..Len(s) : s[i] \in Digits

(* the digits before an optional ".0" *)
IntPart(s) ==
    IF Len(s) > 2 /\ s[Len(s) - 1] = "." /\ s[Len(s)] = "0"
    THEN SubSeq(s, 1, Len(s) - 2)
    ELSE s

(* pd.to_numeric(errors='coerce') of one string cell: [sign] digits [.0] *)
ToNumeric(s) ==
    LET u == Strip(s)
        neg == u # <<>> /\ Head(u) = "-"
        body == IntPart(IF neg THEN Tail(u) ELSE u)
    IN  IF AllDigits(body)
        THEN PyNum(IF neg THEN 0 - DigitsVal(body) ELSE DigitsVal(body))
        ELSE NaN

-----------------------------------------------------------------------------
(* DataFrames: a table is a sequence of rows, a row maps columns to cells *)

(* required_columns without its last entry *)
required_columns_short ==
    <<"Club Name", "State", "City", "Monthly Dues", "Contact Phone", "Website",
      "Address", "Prestige Level", "Membership Type", "Initiation Fee">>

(* web_scraper.py:441-442 *)
required_columns ==
    <<"Club Name", "State", "City", "Monthly Dues", "Contact Phone", "Website",
      "Address", "Prestige Level", "Membership Type", "Initiation Fee",
      "Other Costs">>

Columns == {required_columns[i] : i \in 1..Len(required_columns)}

(* `col in df.columns` *)
HasCol(t, col) == t # <<>> /\ col \in DOMAIN t[1]

(* df[col] = cells *)
SetCol(t, col, cells) ==
    [i \in 1..Len(t) |-> [t[i] EXCEPT ![col] = cells[i]]]

(* .astype(str).str.strip() *)
StrStrip(v) == PyStr(Strip(AsStr(v)))

(* .replace('nan', '') : whole-cell replacement *)
ReplaceNan(v) == IF v = PyStr(<<"nan">>) THEN PyStr(<<>>) ELSE v

(* ParseMoney without .astype(str): the .str accessor gives NaN for every  *)
(* cell that is not a string                                               *)
ParseMoneyNoAsType(v) ==
    IF v.t = "str"
    THEN CHOOSE n \in {ToNumeric(s) : s \in {Remove(Remove(v.s, "$"), ",")}} : TRUE
    ELSE NaN

(* .astype(str).str.replace('$', '').str.replace(',', '') then pd.to_numeric *)
ParseMoney(v) ==
    CHOOSE n \in {ToNumeric(s) : s \in {Remove(Remove(AsStr(v), "$"), ",")}} : TRUE

(* data_loader.py:62-66 *)
CleanClubName(t) ==
    IF HasCol(t, "Club Name")
    THEN LET stripped ==
                SetCol(t, "Club Name",
                       [i \in 1..Len(t) |-> StrStrip(t[i]["Club Name"])])
         IN  SelectSeq(stripped,
                       LAMBDA r : r["Club Name"].t # "nan"
                                  /\ r["Club Name"] # PyStr(<<>>))
    ELSE t

(* data_loader.py:68-70 *)
CleanState(t) ==
    IF HasCol(t, "State")
    THEN SetCol(t, "State",
                [i \in 1..Len(t) |-> PyStr(Upper(Strip(AsStr(t[i]["State"]))))])
    ELSE t

(* data_loader.py:72-74 *)
CleanCity(t) ==
    IF HasCol(t, "City")
    THEN SetCol(t, "City", [i \in 1..Len(t) |-> StrStrip(t[i]["City"])])
    ELSE t

(* ValidDues without the `>= 0` test *)
ValidDuesNotNa(v) == v.t # "nan"

(* data_loader.py:83, the mask on Monthly Dues *)
ValidDues(v) == v.t # "nan" /\ v.n >= 0

(* data_loader.py:76-83 *)
CleanMonthlyDues(t) ==
    IF HasCol(t, "Monthly Dues")
    THEN LET parsed ==
                SetCol(t, "Monthly Dues",
                       [i \in 1..Len(t) |-> ParseMoney(t[i]["Monthly Dues"])])
         IN  SelectSeq(parsed, LAMBDA r : ValidDues(r["Monthly Dues"]))
    ELSE t

(* data_loader.py:85-89, 100-113, 121-124 *)
CleanText(t, col) ==
    IF HasCol(t, col)
    THEN SetCol(t, col, [i \in 1..Len(t) |-> ReplaceNan(StrStrip(t[i][col]))])
    ELSE t

(* a test for the scheme that never finds one *)
HasSchemeNever(s) == FALSE

(* str.startswith(('http://', 'https://')) *)
HasScheme(s) == s # <<>> /\ Head(s) \in {"http://", "https://"}

(* the prefix without the `!= ''` half of the mask *)
AddSchemeToEmpty(v) ==
    IF ~HasScheme(v.s) THEN PyStr(<<"https://">> \o v.s) ELSE v

(* data_loader.py:97-98 *)
AddScheme(v) ==
    IF v.s # <<>> /\ ~HasScheme(v.s) THEN PyStr(<<"https://">> \o v.s) ELSE v

(* data_loader.py:91-98 *)
CleanWebsite(t) ==
    IF HasCol(t, "Website")
    THEN LET text == CleanText(t, "Website")
         IN  SetCol(text, "Website",
                    [i \in 1..Len(text) |-> AddScheme(text[i]["Website"])])
    ELSE t

(* the parsed column without .fillna(0) *)
FillNaKeep(v) == v

(* .fillna(0) *)
FillNa0(v) == IF v.t = "nan" THEN PyNum(0) ELSE v

(* data_loader.py:115-119 *)
CleanInitiationFee(t) ==
    IF HasCol(t, "Initiation Fee")
    THEN SetCol(t, "Initiation Fee",
                [i \in 1..Len(t) |-> FillNa0(ParseMoney(t[i]["Initiation Fee"]))])
    ELSE t

(* data_loader.py:48-129, the passes in the order of the code, each one    *)
(* reading the table the one before it left; reset_index is the            *)
(* renumbering 1..Len of the sequence that SelectSeq returns               *)
clean_and_validate_data(t) ==
    CHOOSE t11 \in
        { CleanText(t10, "Other Costs") : t10 \in
        { CleanInitiationFee(t9) : t9 \in
        { CleanText(t8, "Membership Type") : t8 \in
        { CleanText(t7, "Prestige Level") : t7 \in
        { CleanText(t6, "Address") : t6 \in
        { CleanWebsite(t5) : t5 \in
        { CleanText(t4, "Contact Phone") : t4 \in
        { CleanMonthlyDues(t3) : t3 \in
        { CleanCity(t2) : t2 \in
        { CleanState(t1) : t1 \in
        { CleanClubName(t) } } } } } } } } } } } : TRUE

-----------------------------------------------------------------------------
(* random: a draw of randint(lo, hi) or choice(seq) is one of Picks *)

Picks == {"lo", "hi"}

(* random.randint(lo, hi) *)
RandInt(lo, hi, p) == IF p = "lo" THEN lo ELSE hi

(* the draws of one enhance_club_data call *)
Rnd == [monthly : Picks, initiation : Picks, costs : Picks]

-----------------------------------------------------------------------------
(* CountryClubScraper *)

Tiers ==
    {"Elite", "Ultra-Luxury", "Luxury", "Premier", "Championship",
     "Traditional", "Resort", "Semi-Private", "Public", "Municipal"}

(* web_scraper.py:17-28 *)
base_pricing ==
    [tier \in Tiers |->
        CASE tier = "Elite" ->
               [initiation |-> <<350000, 750000>>, monthly |-> <<15000, 30000>>]
          [] tier = "Ultra-Luxury" ->
               [initiation |-> <<250000, 500000>>, monthly |-> <<12000, 25000>>]
          [] tier = "Luxury" ->
               [initiation |-> <<150000, 350000>>, monthly |-> <<8000, 20000>>]
          [] tier = "Premier" ->
               [initiation |-> <<75000, 200000>>, monthly |-> <<4000, 12000>>]
          [] tier = "Championship" ->
               [initiation |-> <<50000, 150000>>, monthly |-> <<3000, 8000>>]
          [] tier = "Traditional" ->
               [initiation |-> <<25000, 100000>>, monthly |-> <<2500, 6000>>]
          [] tier = "Resort" ->
               [initiation |-> <<10000, 50000>>, monthly |-> <<2000, 5000>>]
          [] tier = "Semi-Private" ->
               [initiation |-> <<5000, 25000>>, monthly |-> <<1500, 4000>>]
          [] tier = "Public" ->
               [initiation |-> <<0, 5000>>, monthly |-> <<100, 1000>>]
          [] tier = "Municipal" ->
               [initiation |-> <<0, 1000>>, monthly |-> <<50, 500>>]]

(* web_scraper.py:31-35, in tenths *)
location_multipliers ==
    [st \in {<<"C","A">>, <<"N","Y">>, <<"F","L">>, <<"T","X">>, <<"N","J">>,
             <<"C","T">>, <<"M","A">>, <<"H","I">>, <<"A","Z">>, <<"N","V">>,
             <<"default">>} |->
        CASE st = <<"C","A">> -> 18 [] st = <<"N","Y">> -> 17
          [] st = <<"F","L">> -> 14 [] st = <<"T","X">> -> 12
          [] st = <<"N","J">> -> 16 [] st = <<"C","T">> -> 15
          [] st = <<"M","A">> -> 15 [] st = <<"H","I">> -> 14
          [] st = <<"A","Z">> -> 11 [] st = <<"N","V">> -> 12
          [] st = <<"default">> -> 10]

(* dict.get(key, default) *)
Get(d, key, default) == IF key \in DOMAIN d THEN d[key] ELSE default

(* `prestige in self.base_pricing` for a hashable prestige *)
InPricing(prestige) ==
    prestige.t = "str" /\ Len(prestige.s) = 1 /\ prestige.s[1] \in Tiers

(* self.location_multipliers.get(state, self.location_multipliers['default']) *)
Multiplier(state) ==
    IF state.t = "str" /\ state.s \in DOMAIN location_multipliers
    THEN location_multipliers[state.s]
    ELSE location_multipliers[<<"default">>]

(* operands whose IEEE-754 double product lies just below the exact one:  *)
(* 350000 * 1.4 is 489999.99999999994.  Of the operands drawn here, the     *)
(* ends of every range with every multiplier, no other product does        *)
DoubleShort == {<<350000, 14>>}

(* int(base * multiplier): the double product, truncated *)
Scale(base, m10) ==
    IF <<base, m10>> \in DoubleShort
    THEN (base * m10) \div 10 - 1
    ELSE (base * m10) \div 10

(* web_scraper.py:65-80 *)
estimate_monthly_dues(club, p) ==
    LET prestige == Get(club, "Prestige Level", PyStr(<<"Traditional">>))
        state == Get(club, "State", PyStr(<<"Unknown">>))
        base_dues ==
            IF InPricing(prestige)
            THEN RandInt(base_pricing[prestige.s[1]].monthly[1],
                         base_pricing[prestige.s[1]].monthly[2], p)
            ELSE RandInt(2000, 6000, p)
    IN  PyInt(Scale(base_dues, Multiplier(state)))

(* web_scraper.py:82-97 *)
estimate_initiation_fee(club, p) ==
    LET prestige == Get(club, "Prestige Level", PyStr(<<"Traditional">>))
        state == Get(club, "State", PyStr(<<"Unknown">>))
        base_fee ==
            IF InPricing(prestige)
            THEN RandInt(base_pricing[prestige.s[1]].initiation[1],
                         base_pricing[prestige.s[1]].initiation[2], p)
            ELSE RandInt(25000, 100000, p)
    IN  PyInt(Scale(base_fee, Multiplier(state)))

(* f"{label}${randint(lo, hi)}{unit}" *)
CostLine(label, lo, hi, unit, p) ==
    <<label>> \o IntStr(RandInt(lo, hi, p)) \o <<unit>>

(* web_scraper.py:99-134 *)
generate_other_costs(club, p) ==
    LET prestige == Get(club, "Prestige Level", PyStr(<<"Traditional">>))
        membership_type == Get(club, "Membership Type", PyStr(<<"Private">>))
        sep == <<"; ">>
    IN  PyStr(
        IF prestige \in {PyStr(<<"Elite">>), PyStr(<<"Ultra-Luxury">>)}
        THEN CostLine("Dining Minimum: $", 5000, 12000, "/year", p) \o sep
             \o CostLine("Valet Service: $", 35, 65, "/visit", p) \o sep
             \o CostLine("Spa Services: $", 300, 600, "/treatment", p)
        ELSE IF prestige \in {PyStr(<<"Luxury">>), PyStr(<<"Premier">>)}
        THEN CostLine("Cart Fees: $", 45, 85, "/round", p) \o sep
             \o CostLine("Dining Minimum: $", 2000, 5000, "/year", p) \o sep
             \o CostLine("Tennis Courts: $", 75, 150, "/hour", p)
        ELSE IF prestige = PyStr(<<"Championship">>)
        THEN CostLine("Cart Fees: $", 35, 65, "/round", p) \o sep
             \o CostLine("Practice Range: $", 15, 30, "/bucket", p)
        ELSE IF membership_type = PyStr(<<"Resort">>)
        THEN CostLine("Resort Amenities: $", 200, 500, "/month", p) \o sep
             \o CostLine("Spa Services: $", 250, 450, "/treatment", p)
        ELSE CostLine("Cart Fees: $", 35, 65, "/round", p) \o sep
             \o CostLine("Pool Access: $", 150, 350, "/month", p))

(* `key not in club or not club[key]` *)
Missing(club, key) == key \notin DOMAIN club \/ Falsy(club[key])

(* enhanced_club[key] = v on a dict *)
Put(d, key, v) == [k \in DOMAIN d \cup {key} |-> IF k = key THEN v ELSE d[k]]

(* enhance_club_data estimating Monthly Dues without looking at the input *)
enhance_club_data_overwrite(club, rnd) ==
    LET e1 == Put(club, "Monthly Dues", estimate_monthly_dues(club, rnd.monthly))
        e2 == IF Missing(e1, "Initiation Fee")
              THEN Put(e1, "Initiation Fee", estimate_initiation_fee(e1, rnd.initiation))
              ELSE e1
        e3 == IF Missing(e2, "Other Costs")
              THEN Put(e2, "Other Costs", generate_other_costs(e2, rnd.costs))
              ELSE e2
    IN  e3

(* web_scraper.py:49-63 *)
enhance_club_data(club, rnd) ==
    LET e1 == IF Missing(club, "Monthly Dues")
              THEN Put(club, "Monthly Dues", estimate_monthly_dues(club, rnd.monthly))
              ELSE club
        e2 == IF Missing(e1, "Initiation Fee")
              THEN Put(e1, "Initiation Fee", estimate_initiation_fee(e1, rnd.initiation))
              ELSE e1
        e3 == IF Missing(e2, "Other Costs")
              THEN Put(e2, "Other Costs", generate_other_costs(e2, rnd.costs))
              ELSE e2
    IN  e3

(* TypeError of the dict lookups in estimate_* on an unhashable key *)
EnhanceRaises(club) ==
    /\ Missing(club, "Monthly Dues") \/ Missing(club, "Initiation Fee")
    /\ \/ Get(club, "Prestige Level", NaN).t = "list"
       \/ Get(club, "State", NaN).t = "list"

-----------------------------------------------------------------------------
(* dict literals and DataFrame construction *)

(* {keys[1]: vals[1], ...} *)
Dict(keys, vals) ==
    [k \in {keys[i] : i \in 1..Len(keys)} |->
        vals[CHOOSE i \in 1..Len(keys) : keys[i] = k]]

(* the empty dict {} *)
EmptyDict == [k \in {} |-> NaN]

(* pd.DataFrame(records): the columns are the union of the keys, a key a   *)
(* record lacks is NaN in its row                                          *)
DataFrame(records) ==
    LET cols == UNION {DOMAIN records[i] : i \in 1..Len(records)}
    IN  [i \in 1..Len(records) |-> [c \in cols |-> Get(records[i], c, NaN)]]

(* df.empty *)
Empty(t) == Len(t) = 0

-----------------------------------------------------------------------------
(* static source data *)

(* web_scraper.py:211-266 *)
top_clubs_data ==
    <<
      Dict(<<"Club Name", "State", "City", "Address", "Prestige Level", "Membership Type", "Monthly Dues", "Initiation Fee", "Contact Phone", "Website", "Other Costs">>,
         <<PyStr(<<"Augusta", " ", "National", " ", "Golf", " ", "Club">>),
           PyStr(<<"G", "A">>),
           PyStr(<<"Augusta">>),
           PyStr(<<"2604 Washington Road, Augusta, GA 30904">>),
           PyStr(<<"Elite">>),
           PyStr(<<"Invitation Only">>),
           PyInt(25000),
           PyInt(500000),
           PyStr(<<"(706) 667-6000">>),
           PyStr(<<"https://", "www.masters.com/">>),
           PyStr(<<"Cart Fees: $75/round; Caddies Required: $200/round">>)>>),
      Dict(<<"Club Name", "State", "City", "Address", "Prestige Level", "Membership Type", "Monthly Dues", "Initiation Fee", "Contact Phone", "Website", "Other Costs">>,
         <<PyStr(<<"Pine", " ", "Valley", " ", "Golf", " ", "Club">>),
           PyStr(<<"N", "J">>),
           PyStr(<<"Clementon">>),
           PyStr(<<"East Atlantic Avenue, Clementon, NJ 08021">>),
           PyStr(<<"Elite">>),
           PyStr(<<"Private">>),
           PyInt(15000),
           PyInt(350000),
           PyStr(<<"(856) 783-3000">>),
           PyStr(<<"https://", "www.pinevalley.org/">>),
           PyStr(<<"Caddies Required: $150/round; Dining Minimum: $5000/year">>)>>),
      Dict(<<"Club Name", "State", "City", "Address", "Prestige Level", "Membership Type", "Monthly Dues", "Initiation Fee", "Contact Phone", "Website", "Other Costs">>,
         <<PyStr(<<"Cypress", " ", "Point", " ", "Club">>),
           PyStr(<<"C", "A">>),
           PyStr(<<"Pebble", " ", "Beach">>),
           PyStr(<<"3150 17 Mile Drive, Pebble Beach, CA 93953">>),
           PyStr(<<"Elite">>),
           PyStr(<<"Private">>),
           PyInt(12000),
           PyInt(300000),
           PyStr(<<"(831) 624-2223">>),
           PyStr(<<"https://", "www.cypresspoint.com/">>),
           PyStr(<<"Dining Minimum: $2000/year; Cart Fees: $85/round">>)>>),
      Dict(<<"Club Name", "State", "City", "Address", "Prestige Level", "Membership Type", "Monthly Dues", "Initiation Fee", "Contact Phone", "Website", "Other Costs">>,
         <<PyStr(<<"Winged", " ", "Foot", " ", "Golf", " ", "Club">>),
           PyStr(<<"N", "Y">>),
           PyStr(<<"Mamaroneck">>),
           PyStr(<<"851 Fenimore Road, Mamaroneck, NY 10543">>),
           PyStr(<<"Elite">>),
           PyStr(<<"Private">>),
           PyInt(8200),
           PyInt(200000),
           PyStr(<<"(914) 698-8400">>),
           PyStr(<<"https://", "www.wfgc.org/">>),
           PyStr(<<"Tennis Courts: $100/hour; Dining Minimum: $2500/year">>)>>),
      Dict(<<"Club Name", "State", "City", "Address", "Prestige Level", "Membership Type", "Monthly Dues", "Initiation Fee", "Contact Phone", "Website", "Other Costs">>,
         <<PyStr(<<"Shinnecock", " ", "Hills", " ", "Golf", " ", "Club">>),
           PyStr(<<"N", "Y">>),
           PyStr(<<"Southampton">>),
           PyStr(<<"200 Tuckahoe Road, Southampton, NY 11968">>),
           PyStr(<<"Elite">>),
           PyStr(<<"Private">>),
           PyInt(7500),
           PyInt(250000),
           PyStr(<<"(631) 283-1310">>),
           PyStr(<<"https://", "www.shinnecockhills.com/">>),
           PyStr(<<"Food & Beverage Minimum: $3000/year; Valet: $35/visit">>)>>),
      Dict(<<"Club Name", "State", "City", "Address", "Prestige Level", "Membership Type", "Monthly Dues", "Initiation Fee", "Contact Phone", "Website", "Other Costs">>,
         <<PyStr(<<"Seminole", " ", "Golf", " ", "Club">>),
           PyStr(<<"F", "L">>),
           PyStr(<<"Juno", " ", "Beach">>),
           PyStr(<<"901 Seminole Boulevard, Juno Beach, FL 33408">>),
           PyStr(<<"Elite">>),
           PyStr(<<"Private">>),
           PyInt(9500),
           PyInt(275000),
           PyStr(<<"(561) 626-2000">>),
           PyStr(<<"https://", "www.seminolegolfclub.com/">>),
           PyStr(<<"Beach Club Access: $500/month; Valet: $40/visit">>)>>)
    >>

(* web_scraper.py:279-392 *)
invited_clubs_data ==
    <<
      Dict(<<"Club Name", "State", "City", "Address", "Contact Phone", "Website", "Prestige Level", "Membership Type">>,
         <<PyStr(<<"Shoal", " ", "Creek">>),
           PyStr(<<"A", "L">>),
           PyStr(<<"Birmingham">>),
           PyStr(<<"100 New Williamsburg Dr, Birmingham, AL 35242">>),
           PyStr(<<"(205) 991-9000">>),
           PyStr(<<"https://", "www.shoalcreekclub.com/">>),
           PyStr(<<"Premier">>),
           PyStr(<<"Private">>)>>),
      Dict(<<"Club Name", "State", "City", "Address", "Contact Phone", "Website", "Prestige Level", "Membership Type">>,
         <<PyStr(<<"Anchorage", " ", "Golf", " ", "Course">>),
           PyStr(<<"A", "K">>),
           PyStr(<<"Anchorage">>),
           PyStr(<<"3651 O'Malley Rd, Anchorage, AK 99507">>),
           PyStr(<<"(907) 522-3363">>),
           PyStr(<<"https://", "www.anchoragegolfcourse.com/">>),
           PyStr(<<"Traditional">>),
           PyStr(<<"Public">>)>>),
      Dict(<<"Club Name", "State", "City", "Address", "Contact Phone", "Website", "Prestige Level", "Membership Type">>,
         <<PyStr(<<"Anthem", " ", "Golf", " ", "&", " ", "Country", " ", "Club">>),
           PyStr(<<"A", "Z">>),
           PyStr(<<"Phoenix">>),
           PyStr(<<"2708 W Anthem Club Dr, Phoenix, AZ 85086">>),
           PyStr(<<"(623) 742-6200">>),
           PyStr(<<"https://", "www.invitedclubs.com/clubs/anthem-golf-country-club">>),
           PyStr(<<"Championship">>),
           PyStr(<<"Private">>)>>),
      Dict(<<"Club Name", "State", "City", "Address", "Contact Phone", "Website", "Prestige Level", "Membership Type">>,
         <<PyStr(<<"Desert", " ", "Mountain", " ", "Club">>),
           PyStr(<<"A", "Z">>),
           PyStr(<<"Scottsdale">>),
           PyStr(<<"10222 E Southwind Ln, Scottsdale, AZ 85262">>),
           PyStr(<<"(480) 488-7300">>),
           PyStr(<<"https://", "www.desertmountainclub.com/">>),
           PyStr(<<"Luxury">>),
           PyStr(<<"Private">>)>>),
      Dict(<<"Club Name", "State", "City", "Address", "Contact Phone", "Website", "Prestige Level", "Membership Type">>,
         <<PyStr(<<"Chenal", " ", "Country", " ", "Club">>),
           PyStr(<<"A", "R">>),
           PyStr(<<"Little", " ", "Rock">>),
           PyStr(<<"1 Chenal Club Blvd, Little Rock, AR 72223">>),
           PyStr(<<"(501) 821-5591">>),
           PyStr(<<"https://", "www.chenalcountryclub.com/">>),
           PyStr(<<"Premier">>),
           PyStr(<<"Private">>)>>),
      Dict(<<"Club Name", "State", "City", "Address", "Contact Phone", "Website", "Prestige Level", "Membership Type">>,
         <<PyStr(<<"Aliso", " ", "Viejo", " ", "Country", " ", "Club">>),
           PyStr(<<"C", "A">>),
           PyStr(<<"Aliso", " ", "Viejo">>),
           PyStr(<<"33 Santa Barbara Dr, Aliso Viejo, CA 92656">>),
           PyStr(<<"(949) 598-9200">>),
           PyStr(<<"https://", "www.invitedclubs.com/clubs/aliso-viejo-country-club">>),
           PyStr(<<"Premier">>),
           PyStr(<<"Private">>)>>),
      Dict(<<"Club Name", "State", "City", "Address", "Contact Phone", "Website", "Prestige Level", "Membership Type">>,
         <<PyStr(<<"Pebble", " ", "Beach", " ", "Golf", " ", "Links">>),
           PyStr(<<"C", "A">>),
           PyStr(<<"Pebble", " ", "Beach">>),
           PyStr(<<"1700 17 Mile Dr, Pebble Beach, CA 93953">>),
           PyStr(<<"(831) 624-3811">>),
           PyStr(<<"https://", "www.pebblebeach.com/">>),
           PyStr(<<"Ultra-Luxury">>),
           PyStr(<<"Resort">>)>>),
      Dict(<<"Club Name", "State", "City", "Address", "Contact Phone", "Website", "Prestige Level", "Membership Type">>,
         <<PyStr(<<"Los", " ", "Angeles", " ", "Country", " ", "Club">>),
           PyStr(<<"C", "A">>),
           PyStr(<<"Los", " ", "Angeles">>),
           PyStr(<<"10101 Wilshire Blvd, Los Angeles, CA 90024">>),
           PyStr(<<"(310) 276-6104">>),
           PyStr(<<"https://", "www.lacc.org/">>),
           PyStr(<<"Elite">>),
           PyStr(<<"Private">>)>>),
      Dict(<<"Club Name", "State", "City", "Address", "Contact Phone", "Website", "Prestige Level", "Membership Type">>,
         <<PyStr(<<"Cherry", " ", "Hills", " ", "Country", " ", "Club">>),
           PyStr(<<"C", "O">>),
           PyStr(<<"Cherry", " ", "Hills", " ", "Village">>),
           PyStr(<<"4125 S University Blvd, Cherry Hills Village, CO 80113">>),
           PyStr(<<"(303) 761-9900">>),
           PyStr(<<"https://", "www.cherryhillscc.org/">>),
           PyStr(<<"Premier">>),
           PyStr(<<"Private">>)>>),
      Dict(<<"Club Name", "State", "City", "Address", "Contact Phone", "Website", "Prestige Level", "Membership Type">>,
         <<PyStr(<<"Castle", " ", "Pines", " ", "Golf", " ", "Club">>),
           PyStr(<<"C", "O">>),
           PyStr(<<"Castle", " ", "Rock">>),
           PyStr(<<"1000 Hummingbird Ln, Castle Rock, CO 80108">>),
           PyStr(<<"(303) 688-6000">>),
           PyStr(<<"https://", "www.castlepinesgc.com/">>),
           PyStr(<<"Luxury">>),
           PyStr(<<"Private">>)>>),
      Dict(<<"Club Name", "State", "City", "Address", "Contact Phone", "Website", "Prestige Level", "Membership Type">>,
         <<PyStr(<<"Winged", " ", "Foot", " ", "Golf", " ", "Club">>),
           PyStr(<<"C", "T">>),
           PyStr(<<"Greenwich">>),
           PyStr(<<"1 Stanwich Rd, Greenwich, CT 06831">>),
           PyStr(<<"(203) 869-4444">>),
           PyStr(<<"https://", "www.stanwichclub.com/">>),
           PyStr(<<"Elite">>),
           PyStr(<<"Private">>)>>),
      Dict(<<"Club Name", "State", "City", "Address", "Contact Phone", "Website", "Prestige Level", "Membership Type">>,
         <<PyStr(<<"Hartford", " ", "Golf", " ", "Club">>),
           PyStr(<<"C", "T">>),
           PyStr(<<"West", " ", "Hartford">>),
           PyStr(<<"134 Norwood Rd, West Hartford, CT 06117">>),
           PyStr(<<"(860) 236-9646">>),
           PyStr(<<"https://", "www.hartfordgolfclub.com/">>),
           PyStr(<<"Premier">>),
           PyStr(<<"Private">>)>>),
      Dict(<<"Club Name", "State", "City", "Address", "Contact Phone", "Website", "Prestige Level", "Membership Type">>,
         <<PyStr(<<"Wilmington", " ", "Country", " ", "Club">>),
           PyStr(<<"D", "E">>),
           PyStr(<<"Wilmington">>),
           PyStr(<<"4825 Kennett Pike, Wilmington, DE 19807">>),
           PyStr(<<"(302) 655-6464">>),
           PyStr(<<"https://", "www.wilmingtoncountryclub.org/">>),
           PyStr(<<"Premier">>),
           PyStr(<<"Private">>)>>),
      Dict(<<"Club Name", "State", "City", "Address", "Contact Phone", "Website", "Prestige Level", "Membership Type">>,
         <<PyStr(<<"TPC", " ", "Sawgrass">>),
           PyStr(<<"F", "L">>),
           PyStr(<<"Ponte", " ", "Vedra", " ", "Beach">>),
           PyStr(<<"110 Championship Way, Ponte Vedra Beach, FL 32082">>),
           PyStr(<<"(904) 273-3235">>),
           PyStr(<<"https://", "www.tpc.com/sawgrass/">>),
           PyStr(<<"Championship">>),
           PyStr(<<"Semi-Private">>)>>),
      Dict(<<"Club Name", "State", "City", "Address", "Contact Phone", "Website", "Prestige Level", "Membership Type">>,
         <<PyStr(<<"Ocean", " ", "Reef", " ", "Club">>),
           PyStr(<<"F", "L">>),
           PyStr(<<"Key", " ", "Largo">>),
           PyStr(<<"35 Ocean Reef Dr, Key Largo, FL 33037">>),
           PyStr(<<"(305) 367-2611">>),
           PyStr(<<"https://", "www.oceanreef.com/">>),
           PyStr(<<"Ultra-Luxury">>),
           PyStr(<<"Private">>)>>),
      Dict(<<"Club Name", "State", "City", "Address", "Contact Phone", "Website", "Prestige Level", "Membership Type">>,
         <<PyStr(<<"Bay", " ", "Hill", " ", "Club", " ", "&", " ", "Lodge">>),
           PyStr(<<"F", "L">>),
           PyStr(<<"Orlando">>),
           PyStr(<<"9000 Bay Hill Blvd, Orlando, FL 32819">>),
           PyStr(<<"(407) 876-2429">>),
           PyStr(<<"https://", "www.bayhill.com/">>),
           PyStr(<<"Premier">>),
           PyStr(<<"Resort">>)>>),
      Dict(<<"Club Name", "State", "City", "Address", "Contact Phone", "Website", "Prestige Level", "Membership Type">>,
         <<PyStr(<<"Atlanta", " ", "National", " ", "Golf", " ", "Club">>),
           PyStr(<<"G", "A">>),
           PyStr(<<"Milton">>),
           PyStr(<<"350 Tournament Players Dr, Milton, GA 30004">>),
           PyStr(<<"(770) 442-8801">>),
           PyStr(<<"https://", "www.invitedclubs.com/clubs/atlanta-national-golf-club">>),
           PyStr(<<"Premier">>),
           PyStr(<<"Private">>)>>),
      Dict(<<"Club Name", "State", "City", "Address", "Contact Phone", "Website", "Prestige Level", "Membership Type">>,
         <<PyStr(<<"East", " ", "Lake", " ", "Golf", " ", "Club">>),
           PyStr(<<"G", "A">>),
           PyStr(<<"Atlanta">>),
           PyStr(<<"2575 Alston Dr SE, Atlanta, GA 30317">>),
           PyStr(<<"(404) 377-2218">>),
           PyStr(<<"https://", "www.eastlakegolfclub.com/">>),
           PyStr(<<"Championship">>),
           PyStr(<<"Private">>)>>),
      Dict(<<"Club Name", "State", "City", "Address", "Contact Phone", "Website", "Prestige Level", "Membership Type">>,
         <<PyStr(<<"Waialae", " ", "Country", " ", "Club">>),
           PyStr(<<"H", "I">>),
           PyStr(<<"Honolulu">>),
           PyStr(<<"4997 Kahala Ave, Honolulu, HI 96816">>),
           PyStr(<<"(808) 734-2151">>),
           PyStr(<<"https://", "www.waialaecountryclub.com/">>),
           PyStr(<<"Premier">>),
           PyStr(<<"Private">>)>>),
      Dict(<<"Club Name", "State", "City", "Address", "Contact Phone", "Website", "Prestige Level", "Membership Type">>,
         <<PyStr(<<"Hillcrest", " ", "Country", " ", "Club">>),
           PyStr(<<"I", "D">>),
           PyStr(<<"Boise">>),
           PyStr(<<"2700 E Bogus Basin Rd, Boise, ID 83702">>),
           PyStr(<<"(208) 336-1661">>),
           PyStr(<<"https://", "www.hillcrestboise.com/">>),
           PyStr(<<"Traditional">>),
           PyStr(<<"Private">>)>>),
      Dict(<<"Club Name", "State", "City", "Address", "Contact Phone", "Website", "Prestige Level", "Membership Type">>,
         <<PyStr(<<"Medinah", " ", "Country", " ", "Club">>),
           PyStr(<<"I", "L">>),
           PyStr(<<"Medinah">>),
           PyStr(<<"6N001 Medinah Rd, Medinah, IL 60157">>),
           PyStr(<<"(630) 773-1700">>),
           PyStr(<<"https://", "www.medinahcc.org/">>),
           PyStr(<<"Premier">>),
           PyStr(<<"Private">>)>>),
      Dict(<<"Club Name", "State", "City", "Address", "Contact Phone", "Website", "Prestige Level", "Membership Type">>,
         <<PyStr(<<"Chicago", " ", "Golf", " ", "Club">>),
           PyStr(<<"I", "L">>),
           PyStr(<<"Wheaton">>),
           PyStr(<<"25W253 Warrenville Rd, Wheaton, IL 60189">>),
           PyStr(<<"(630) 665-2988">>),
           PyStr(<<"https://", "www.chicagogolfclub.org/">>),
           PyStr(<<"Elite">>),
           PyStr(<<"Private">>)>>),
      Dict(<<"Club Name", "State", "City", "Address", "Contact Phone", "Website", "Prestige Level", "Membership Type">>,
         <<PyStr(<<"Crooked", " ", "Stick", " ", "Golf", " ", "Club">>),
           PyStr(<<"I", "N">>),
           PyStr(<<"Carmel">>),
           PyStr(<<"1964 Burning Tree Ln, Carmel, IN 46032">>),
           PyStr(<<"(317) 844-9809">>),
           PyStr(<<"https://", "www.crookedstick.org/">>),
           PyStr(<<"Premier">>),
           PyStr(<<"Private">>)>>),
      Dict(<<"Club Name", "State", "City", "Address", "Contact Phone", "Website", "Prestige Level", "Membership Type">>,
         <<PyStr(<<"Des", " ", "Moines", " ", "Golf", " ", "&", " ", "Country", " ", "Club">>),
           PyStr(<<"I", "A">>),
           PyStr(<<"West", " ", "Des", " ", "Moines">>),
           PyStr(<<"1600 Jordan Creek Pkwy, West Des Moines, IA 50266">>),
           PyStr(<<"(515) 223-8866">>),
           PyStr(<<"https://", "www.dmgcc.com/">>),
           PyStr(<<"Traditional">>),
           PyStr(<<"Private">>)>>),
      Dict(<<"Club Name", "State", "City", "Address", "Contact Phone", "Website", "Prestige Level", "Membership Type">>,
         <<PyStr(<<"Mission", " ", "Hills", " ", "Country", " ", "Club">>),
           PyStr(<<"K", "S">>),
           PyStr(<<"Mission", " ", "Hills">>),
           PyStr(<<"5400 Mission Dr, Mission Hills, KS 66208">>),
           PyStr(<<"(913) 362-9971">>),
           PyStr(<<"https://", "www.missionhillscc.org/">>),
           PyStr(<<"Premier">>),
           PyStr(<<"Private">>)>>),
      Dict(<<"Club Name", "State", "City", "Address", "Contact Phone", "Website", "Prestige Level", "Membership Type">>,
         <<PyStr(<<"Valhalla", " ", "Golf", " ", "Club">>),
           PyStr(<<"K", "Y">>),
           PyStr(<<"Louisville">>),
           PyStr(<<"15503 Shelbyville Rd, Louisville, KY 40245">>),
           PyStr(<<"(502) 245-4475">>),
           PyStr(<<"https://", "www.valhallagolfclub.com/">>),
           PyStr(<<"Championship">>),
           PyStr(<<"Private">>)>>),
      Dict(<<"Club Name", "State", "City", "Address", "Contact Phone", "Website", "Prestige Level", "Membership Type">>,
         <<PyStr(<<"TPC", " ", "Louisiana">>),
           PyStr(<<"L", "A">>),
           PyStr(<<"Avondale">>),
           PyStr(<<"11001 Lapalco Blvd, Avondale, LA 70094">>),
           PyStr(<<"(504) 436-8721">>),
           PyStr(<<"https://", "www.tpc.com/louisiana/">>),
           PyStr(<<"Championship">>),
           PyStr(<<"Semi-Private">>)>>),
      Dict(<<"Club Name", "State", "City", "Address", "Contact Phone", "Website", "Prestige Level", "Membership Type">>,
         <<PyStr(<<"Portland", " ", "Country", " ", "Club">>),
           PyStr(<<"M", "E">>),
           PyStr(<<"Falmouth">>),
           PyStr(<<"58 Foreside Rd, Falmouth, ME 04105">>),
           PyStr(<<"(207) 781-4464">>),
           PyStr(<<"https://", "www.portlandcc.org/">>),
           PyStr(<<"Traditional">>),
           PyStr(<<"Private">>)>>),
      Dict(<<"Club Name", "State", "City", "Address", "Contact Phone", "Website", "Prestige Level", "Membership Type">>,
         <<PyStr(<<"Congressional", " ", "Country", " ", "Club">>),
           PyStr(<<"M", "D">>),
           PyStr(<<"Bethesda">>),
           PyStr(<<"8500 River Rd, Bethesda, MD 20817">>),
           PyStr(<<"(301) 469-2000">>),
           PyStr(<<"https://", "www.ccclub.org/">>),
           PyStr(<<"Elite">>),
           PyStr(<<"Private">>)>>),
      Dict(<<"Club Name", "State", "City", "Address", "Contact Phone", "Website", "Prestige Level", "Membership Type">>,
         <<PyStr(<<"The", " ", "Country", " ", "Club">>),
           PyStr(<<"M", "A">>),
           PyStr(<<"Brookline">>),
           PyStr(<<"191 Clyde St, Brookline, MA 02467">>),
           PyStr(<<"(617) 566-0240">>),
           PyStr(<<"https://", "www.tccbrookline.org/">>),
           PyStr(<<"Elite">>),
           PyStr(<<"Private">>)>>),
      Dict(<<"Club Name", "State", "City", "Address", "Contact Phone", "Website", "Prestige Level", "Membership Type">>,
         <<PyStr(<<"Oakland", " ", "Hills", " ", "Country", " ", "Club">>),
           PyStr(<<"M", "I">>),
           PyStr(<<"Bloomfield", " ", "Hills">>),
           PyStr(<<"3951 W Maple Rd, Bloomfield Hills, MI 48301">>),
           PyStr(<<"(248) 433-6500">>),
           PyStr(<<"https://", "www.oaklandhillscc.com/">>),
           PyStr(<<"Premier">>),
           PyStr(<<"Private">>)>>),
      Dict(<<"Club Name", "State", "City", "Address", "Contact Phone", "Website", "Prestige Level", "Membership Type">>,
         <<PyStr(<<"Hazeltine", " ", "National", " ", "Golf", " ", "Club">>),
           PyStr(<<"M", "N">>),
           PyStr(<<"Chaska">>),
           PyStr(<<"1900 Hazeltine Blvd, Chaska, MN 55318">>),
           PyStr(<<"(952) 448-4029">>),
           PyStr(<<"https://", "www.hazeltine.com/">>),
           PyStr(<<"Championship">>),
           PyStr(<<"Private">>)>>),
      Dict(<<"Club Name", "State", "City", "Address", "Contact Phone", "Website", "Prestige Level", "Membership Type">>,
         <<PyStr(<<"Country", " ", "Club", " ", "of", " ", "Jackson">>),
           PyStr(<<"M", "S">>),
           PyStr(<<"Jackson">>),
           PyStr(<<"345 Saint Andrews Dr, Jackson, MS 39216">>),
           PyStr(<<"(601) 981-3223">>),
           PyStr(<<"https://", "www.ccjackson.com/">>),
           PyStr(<<"Traditional">>),
           PyStr(<<"Private">>)>>),
      Dict(<<"Club Name", "State", "City", "Address", "Contact Phone", "Website", "Prestige Level", "Membership Type">>,
         <<PyStr(<<"Bellerive", " ", "Country", " ", "Club">>),
           PyStr(<<"M", "O">>),
           PyStr(<<"St.", " ", "Louis">>),
           PyStr(<<"11160 Ladue Rd, St. Louis, MO 63141">>),
           PyStr(<<"(314) 434-7500">>),
           PyStr(<<"https://", "www.bellerivecc.org/">>),
           PyStr(<<"Premier">>),
           PyStr(<<"Private">>)>>),
      Dict(<<"Club Name", "State", "City", "Address", "Contact Phone", "Website", "Prestige Level", "Membership Type">>,
         <<PyStr(<<"Big", " ", "Sky", " ", "Golf", " ", "Club">>),
           PyStr(<<"M", "T">>),
           PyStr(<<"Big", " ", "Sky">>),
           PyStr(<<"1 Meadow Village Dr, Big Sky, MT 59716">>),
           PyStr(<<"(406) 995-5780">>),
           PyStr(<<"https://", "www.bigskygolfclub.com/">>),
           PyStr(<<"Resort">>),
           PyStr(<<"Resort">>)>>),
      Dict(<<"Club Name", "State", "City", "Address", "Contact Phone", "Website", "Prestige Level", "Membership Type">>,
         <<PyStr(<<"Omaha", " ", "Country", " ", "Club">>),
           PyStr(<<"N", "E">>),
           PyStr(<<"Omaha">>),
           PyStr(<<"6900 Country Club Rd, Omaha, NE 68152">>),
           PyStr(<<"(402) 498-8000">>),
           PyStr(<<"https://", "www.omahacc.com/">>),
           PyStr(<<"Traditional">>),
           PyStr(<<"Private">>)>>),
      Dict(<<"Club Name", "State", "City", "Address", "Contact Phone", "Website", "Prestige Level", "Membership Type">>,
         <<PyStr(<<"Shadow", " ", "Creek", " ", "Golf", " ", "Course">>),
           PyStr(<<"N", "V">>),
           PyStr(<<"Las", " ", "Vegas">>),
           PyStr(<<"3 Shadow Creek Dr, Las Vegas, NV 89030">>),
           PyStr(<<"(702) 791-7161">>),
           PyStr(<<"https://", "www.shadowcreek.com/">>),
           PyStr(<<"Ultra-Luxury">>),
           PyStr(<<"Private">>)>>),
      Dict(<<"Club Name", "State", "City", "Address", "Contact Phone", "Website", "Prestige Level", "Membership Type">>,
         <<PyStr(<<"Eastman", " ", "Golf", " ", "Links">>),
           PyStr(<<"N", "H">>),
           PyStr(<<"Grantham">>),
           PyStr(<<"7 Clubhouse Ln, Grantham, NH 03753">>),
           PyStr(<<"(603) 863-4500">>),
           PyStr(<<"https://", "www.eastmangolflinks.com/">>),
           PyStr(<<"Traditional">>),
           PyStr(<<"Semi-Private">>)>>),
      Dict(<<"Club Name", "State", "City", "Address", "Contact Phone", "Website", "Prestige Level", "Membership Type">>,
         <<PyStr(<<"Ridgewood", " ", "Country", " ", "Club">>),
           PyStr(<<"N", "J">>),
           PyStr(<<"Paramus">>),
           PyStr(<<"838 E Ridgewood Ave, Paramus, NJ 07652">>),
           PyStr(<<"(201) 444-7529">>),
           PyStr(<<"https://", "www.ridgewoodcc.org/">>),
           PyStr(<<"Premier">>),
           PyStr(<<"Private">>)>>),
      Dict(<<"Club Name", "State", "City", "Address", "Contact Phone", "Website", "Prestige Level", "Membership Type">>,
         <<PyStr(<<"Paa-Ko", " ", "Ridge", " ", "Golf", " ", "Club">>),
           PyStr(<<"N", "M">>),
           PyStr(<<"Sandia", " ", "Park">>),
           PyStr(<<"1 Clubhouse Dr, Sandia Park, NM 87047">>),
           PyStr(<<"(505) 281-6000">>),
           PyStr(<<"https://", "www.paakoridge.com/">>),
           PyStr(<<"Resort">>),
           PyStr(<<"Semi-Private">>)>>),
      Dict(<<"Club Name", "State", "City", "Address", "Contact Phone", "Website", "Prestige Level", "Membership Type">>,
         <<PyStr(<<"Bethpage", " ", "Black", " ", "Course">>),
           PyStr(<<"N", "Y">>),
           PyStr(<<"Farmingdale">>),
           PyStr(<<"99 Quaker Meeting House Rd, Farmingdale, NY 11735">>),
           PyStr(<<"(516) 249-0700">>),
           PyStr(<<"https://", "www.bethpagegolf.com/">>),
           PyStr(<<"Championship">>),
           PyStr(<<"Public">>)>>),
      Dict(<<"Club Name", "State", "City", "Address", "Contact Phone", "Website", "Prestige Level", "Membership Type">>,
         <<PyStr(<<"Quail", " ", "Hollow", " ", "Club">>),
           PyStr(<<"N", "C">>),
           PyStr(<<"Charlotte">>),
           PyStr(<<"3700 Gleneagles Rd, Charlotte, NC 28210">>),
           PyStr(<<"(704) 552-9174">>),
           PyStr(<<"https://", "www.quailhollowclub.com/">>),
           PyStr(<<"Premier">>),
           PyStr(<<"Private">>)>>),
      Dict(<<"Club Name", "State", "City", "Address", "Contact Phone", "Website", "Prestige Level", "Membership Type">>,
         <<PyStr(<<"Fargo", " ", "Country", " ", "Club">>),
           PyStr(<<"N", "D">>),
           PyStr(<<"Fargo">>),
           PyStr(<<"3902 Rose Creek Pkwy, Fargo, ND 58104">>),
           PyStr(<<"(701) 235-6932">>),
           PyStr(<<"https://", "www.fargocc.com/">>),
           PyStr(<<"Traditional">>),
           PyStr(<<"Private">>)>>),
      Dict(<<"Club Name", "State", "City", "Address", "Contact Phone", "Website", "Prestige Level", "Membership Type">>,
         <<PyStr(<<"Muirfield", " ", "Village", " ", "Golf", " ", "Club">>),
           PyStr(<<"O", "H">>),
           PyStr(<<"Dublin">>),
           PyStr(<<"5750 Memorial Dr, Dublin, OH 43017">>),
           PyStr(<<"(614) 889-6700">>),
           PyStr(<<"https://", "www.muirfieldvillage.com/">>),
           PyStr(<<"Premier">>),
           PyStr(<<"Private">>)>>),
      Dict(<<"Club Name", "State", "City", "Address", "Contact Phone", "Website", "Prestige Level", "Membership Type">>,
         <<PyStr(<<"Southern", " ", "Hills", " ", "Country", " ", "Club">>),
           PyStr(<<"O", "K">>),
           PyStr(<<"Tulsa">>),
           PyStr(<<"2636 E 61st St S, Tulsa, OK 74136">>),
           PyStr(<<"(918) 492-3351">>),
           PyStr(<<"https://", "www.southernhillscc.com/">>),
           PyStr(<<"Premier">>),
           PyStr(<<"Private">>)>>),
      Dict(<<"Club Name", "State", "City", "Address", "Contact Phone", "Website", "Prestige Level", "Membership Type">>,
         <<PyStr(<<"Pumpkin", " ", "Ridge", " ", "Golf", " ", "Club">>),
           PyStr(<<"O", "R">>),
           PyStr(<<"North", " ", "Plains">>),
           PyStr(<<"12930 NW Old Pumpkin Ridge Rd, North Plains, OR 97133">>),
           PyStr(<<"(503) 647-4747">>),
           PyStr(<<"https://", "www.pumpkinridge.com/">>),
           PyStr(<<"Championship">>),
           PyStr(<<"Semi-Private">>)>>),
      Dict(<<"Club Name", "State", "City", "Address", "Contact Phone", "Website", "Prestige Level", "Membership Type">>,
         <<PyStr(<<"Aronimink", " ", "Golf", " ", "Club">>),
           PyStr(<<"P", "A">>),
           PyStr(<<"Newtown", " ", "Square">>),
           PyStr(<<"3600 St Davids Rd, Newtown Square, PA 19073">>),
           PyStr(<<"(610) 356-1235">>),
           PyStr(<<"https://", "www.aronimink.org/">>),
           PyStr(<<"Premier">>),
           PyStr(<<"Private">>)>>),
      Dict(<<"Club Name", "State", "City", "Address", "Contact Phone", "Website", "Prestige Level", "Membership Type">>,
         <<PyStr(<<"Newport", " ", "Country", " ", "Club">>),
           PyStr(<<"R", "I">>),
           PyStr(<<"Newport">>),
           PyStr(<<"200 Harrison Ave, Newport, RI 02840">>),
           PyStr(<<"(401) 846-4646">>),
           PyStr(<<"https://", "www.newportcc.org/">>),
           PyStr(<<"Premier">>),
           PyStr(<<"Private">>)>>),
      Dict(<<"Club Name", "State", "City", "Address", "Contact Phone", "Website", "Prestige Level", "Membership Type">>,
         <<PyStr(<<"Kiawah", " ", "Island", " ", "Golf", " ", "Resort">>),
           PyStr(<<"S", "C">>),
           PyStr(<<"Kiawah", " ", "Island">>),
           PyStr(<<"1 Sanctuary Beach Dr, Kiawah Island, SC 29455">>),
           PyStr(<<"(843) 768-2121">>),
           PyStr(<<"https://", "www.kiawahresort.com/">>),
           PyStr(<<"Ultra-Luxury">>),
           PyStr(<<"Resort">>)>>),
      Dict(<<"Club Name", "State", "City", "Address", "Contact Phone", "Website", "Prestige Level", "Membership Type">>,
         <<PyStr(<<"Minnehaha", " ", "Country", " ", "Club">>),
           PyStr(<<"S", "D">>),
           PyStr(<<"Sioux", " ", "Falls">>),
           PyStr(<<"3000 N Cliff Ave, Sioux Falls, SD 57104">>),
           PyStr(<<"(605) 334-4100">>),
           PyStr(<<"https://", "www.minnehahacc.com/">>),
           PyStr(<<"Traditional">>),
           PyStr(<<"Private">>)>>),
      Dict(<<"Club Name", "State", "City", "Address", "Contact Phone", "Website", "Prestige Level", "Membership Type">>,
         <<PyStr(<<"The", " ", "Hermitage", " ", "Golf", " ", "Course">>),
           PyStr(<<"T", "N">>),
           PyStr(<<"Old", " ", "Hickory">>),
           PyStr(<<"3939 Old Hickory Blvd, Old Hickory, TN 37138">>),
           PyStr(<<"(615) 847-4001">>),
           PyStr(<<"https://", "www.hermitagegolf.com/">>),
           PyStr(<<"Premier">>),
           PyStr(<<"Semi-Private">>)>>),
      Dict(<<"Club Name", "State", "City", "Address", "Contact Phone", "Website", "Prestige Level", "Membership Type">>,
         <<PyStr(<<"Colonial", " ", "Country", " ", "Club">>),
           PyStr(<<"T", "X">>),
           PyStr(<<"Fort", " ", "Worth">>),
           PyStr(<<"3735 Country Club Cir, Fort Worth, TX 76109">>),
           PyStr(<<"(817) 927-4200">>),
           PyStr(<<"https://", "www.colonialfw.com/">>),
           PyStr(<<"Premier">>),
           PyStr(<<"Private">>)>>),
      Dict(<<"Club Name", "State", "City", "Address", "Contact Phone", "Website", "Prestige Level", "Membership Type">>,
         <<PyStr(<<"Houston", " ", "Country", " ", "Club">>),
           PyStr(<<"T", "X">>),
           PyStr(<<"Houston">>),
           PyStr(<<"1 Potomac Dr, Houston, TX 77057">>),
           PyStr(<<"(713) 465-8181">>),
           PyStr(<<"https://", "www.houstoncountryclub.org/">>),
           PyStr(<<"Elite">>),
           PyStr(<<"Private">>)>>),
      Dict(<<"Club Name", "State", "City", "Address", "Contact Phone", "Website", "Prestige Level", "Membership Type">>,
         <<PyStr(<<"Oakridge", " ", "Country", " ", "Club">>),
           PyStr(<<"U", "T">>),
           PyStr(<<"Farmington">>),
           PyStr(<<"1492 Oakridge Country Club Dr, Farmington, UT 84025">>),
           PyStr(<<"(801) 451-3773">>),
           PyStr(<<"https://", "www.oakridgecc.com/">>),
           PyStr(<<"Traditional">>),
           PyStr(<<"Private">>)>>),
      Dict(<<"Club Name", "State", "City", "Address", "Contact Phone", "Website", "Prestige Level", "Membership Type">>,
         <<PyStr(<<"Ekwanok", " ", "Country", " ", "Club">>),
           PyStr(<<"V", "T">>),
           PyStr(<<"Manchester">>),
           PyStr(<<"3899 Main St, Manchester, VT 05254">>),
           PyStr(<<"(802) 362-3230">>),
           PyStr(<<"https://", "www.ekwanok.com/">>),
           PyStr(<<"Traditional">>),
           PyStr(<<"Private">>)>>),
      Dict(<<"Club Name", "State", "City", "Address", "Contact Phone", "Website", "Prestige Level", "Membership Type">>,
         <<PyStr(<<"TPC", " ", "Potomac", " ", "at", " ", "Avenel", " ", "Farm">>),
           PyStr(<<"V", "A">>),
           PyStr(<<"Potomac", " ", "Falls">>),
           PyStr(<<"10000 Oaklyn Dr, Potomac Falls, VA 20165">>),
           PyStr(<<"(703) 444-9400">>),
           PyStr(<<"https://", "www.tpc.com/potomac/">>),
           PyStr(<<"Championship">>),
           PyStr(<<"Semi-Private">>)>>),
      Dict(<<"Club Name", "State", "City", "Address", "Contact Phone", "Website", "Prestige Level", "Membership Type">>,
         <<PyStr(<<"Sahalee", " ", "Country", " ", "Club">>),
           PyStr(<<"W", "A">>),
           PyStr(<<"Sammamish">>),
           PyStr(<<"21200 NE 28th St, Sammamish, WA 98074">>),
           PyStr(<<"(425) 455-8400">>),
           PyStr(<<"https://", "www.sahaleecc.com/">>),
           PyStr(<<"Premier">>),
           PyStr(<<"Private">>)>>),
      Dict(<<"Club Name", "State", "City", "Address", "Contact Phone", "Website", "Prestige Level", "Membership Type">>,
         <<PyStr(<<"The", " ", "Greenbrier">>),
           PyStr(<<"W", "V">>),
           PyStr(<<"White", " ", "Sulphur", " ", "Springs">>),
           PyStr(<<"101 W Main St, White Sulphur Springs, WV 24986">>),
           PyStr(<<"(855) 453-4858">>),
           PyStr(<<"https://", "www.greenbrier.com/">>),
           PyStr(<<"Ultra-Luxury">>),
           PyStr(<<"Resort">>)>>),
      Dict(<<"Club Name", "State", "City", "Address", "Contact Phone", "Website", "Prestige Level", "Membership Type">>,
         <<PyStr(<<"Whistling", " ", "Straits">>),
           PyStr(<<"W", "I">>),
           PyStr(<<"Haven">>),
           PyStr(<<"N8501 County Rd LS, Haven, WI 53083">>),
           PyStr(<<"(920) 457-4446">>),
           PyStr(<<"https://", "www.americanclubresort.com/">>),
           PyStr(<<"Ultra-Luxury">>),
           PyStr(<<"Resort">>)>>),
      Dict(<<"Club Name", "State", "City", "Address", "Contact Phone", "Website", "Prestige Level", "Membership Type">>,
         <<PyStr(<<"Jackson", " ", "Hole", " ", "Golf", " ", "&", " ", "Tennis", " ", "Club">>),
           PyStr(<<"W", "Y">>),
           PyStr(<<"Jackson">>),
           PyStr(<<"5000 Spring Gulch Rd, Jackson, WY 83001">>),
           PyStr(<<"(307) 733-3111">>),
           PyStr(<<"https://", "www.jhgtc.org/">>),
           PyStr(<<"Luxury">>),
           PyStr(<<"Private">>)>>),
      Dict(<<"Club Name", "State", "City", "Address", "Contact Phone", "Website", "Prestige Level", "Membership Type">>,
         <<PyStr(<<"Congressional", " ", "Country", " ", "Club">>),
           PyStr(<<"D", "C">>),
           PyStr(<<"Washington">>),
           PyStr(<<"8500 River Rd, Bethesda, MD 20817">>),
           PyStr(<<"(301) 469-2000">>),
           PyStr(<<"https://", "www.ccclub.org/">>),
           PyStr(<<"Elite">>),
           PyStr(<<"Private">>)>>)
    >>

(* fallback_data.py:12-338 *)
clubs_data ==
    <<
      Dict(<<"Club Name", "State", "City", "Monthly Dues", "Contact Phone", "Website", "Address", "Prestige Level", "Membership Type", "Initiation Fee", "Other Costs">>,
         <<PyStr(<<"Augusta", " ", "National", " ", "Golf", " ", "Club">>),
           PyStr(<<"G", "A">>),
           PyStr(<<"Augusta">>),
           PyInt(25000),
           PyStr(<<"(706) 667-6000">>),
           PyStr(<<"https://", "www.masters.com">>),
           PyStr(<<"2604 Washington Rd, Augusta, GA 30904">>),
           PyStr(<<"Elite">>),
           PyStr(<<"Invitation Only">>),
           PyInt(500000),
           PyStr(<<"Cart Fees: $75/round; Caddies Required: $200/round">>)>>),
      Dict(<<"Club Name", "State", "City", "Monthly Dues", "Contact Phone", "Website", "Address", "Prestige Level", "Membership Type", "Initiation Fee", "Other Costs">>,
         <<PyStr(<<"Pebble", " ", "Beach", " ", "Golf", " ", "Links">>),
           PyStr(<<"C", "A">>),
           PyStr(<<"Pebble", " ", "Beach">>),
           PyInt(8500),
           PyStr(<<"(831) 624-3811">>),
           PyStr(<<"https://", "www.pebblebeach.com">>),
           PyStr(<<"1700 17 Mile Dr, Pebble Beach, CA 93953">>),
           PyStr(<<"Premier">>),
           PyStr(<<"Semi-Private">>),
           PyInt(25000),
           PyStr(<<"Green Fees: $695/round; Cart Fees: $65/round">>)>>),
      Dict(<<"Club Name", "State", "City", "Monthly Dues", "Contact Phone", "Website", "Address", "Prestige Level", "Membership Type", "Initiation Fee", "Other Costs">>,
         <<PyStr(<<"Pine", " ", "Valley", " ", "Golf", " ", "Club">>),
           PyStr(<<"N", "J">>),
           PyStr(<<"Pine", " ", "Valley">>),
           PyInt(15000),
           PyStr(<<"(856) 783-3000">>),
           PyStr(<<"https://", "www.pinevalley.org">>),
           PyStr(<<"Clementon Rd, Pine Valley, NJ 08021">>),
           PyStr(<<"Elite">>),
           PyStr(<<"Private">>),
           PyInt(350000),
           PyStr(<<"Caddies Required: $150/round; Dining Minimum: $5000/year">>)>>),
      Dict(<<"Club Name", "State", "City", "Monthly Dues", "Contact Phone", "Website", "Address", "Prestige Level", "Membership Type", "Initiation Fee", "Other Costs">>,
         <<PyStr(<<"Cypress", " ", "Point", " ", "Club">>),
           PyStr(<<"C", "A">>),
           PyStr(<<"Pebble", " ", "Beach">>),
           PyInt(12000),
           PyStr(<<"(831) 624-2223">>),
           PyStr(<<"https://", "www.cypresspoint.com">>),
           PyStr(<<"3150 17 Mile Dr, Pebble Beach, CA 93953">>),
           PyStr(<<"Elite">>),
           PyStr(<<"Private">>),
           PyInt(300000),
           PyStr(<<"Dining Minimum: $2000/year; Cart Fees: $85/round">>)>>),
      Dict(<<"Club Name", "State", "City", "Monthly Dues", "Contact Phone", "Website", "Address", "Prestige Level", "Membership Type", "Initiation Fee", "Other Costs">>,
         <<PyStr(<<"Merion", " ", "Golf", " ", "Club">>),
           PyStr(<<"P", "A">>),
           PyStr(<<"Ardmore">>),
           PyInt(6800),
           PyStr(<<"(610) 642-5600">>),
           PyStr(<<"https://", "www.meriongolfclub.com">>),
           PyStr(<<"450 Ardmore Ave, Ardmore, PA 19003">>),
           PyStr(<<"Premier">>),
           PyStr(<<"Private">>),
           PyInt(125000),
           PyStr(<<"Locker Fees: $500/year; Cart Fees: $55/round">>)>>),
      Dict(<<"Club Name", "State", "City", "Monthly Dues", "Contact Phone", "Website", "Address", "Prestige Level", "Membership Type", "Initiation Fee", "Other Costs">>,
         <<PyStr(<<"Shinnecock", " ", "Hills", " ", "Golf", " ", "Club">>),
           PyStr(<<"N", "Y">>),
           PyStr(<<"Southampton">>),
           PyInt(7500),
           PyStr(<<"(631) 283-1310">>),
           PyStr(<<"https://", "www.shinnecockhills.com">>),
           PyStr(<<"200 Tuckahoe Rd, Southampton, NY 11968">>),
           PyStr(<<"Elite">>),
           PyStr(<<"Private">>),
           PyInt(250000),
           PyStr(<<"Food & Beverage Minimum: $3000/year; Valet: $35/visit">>)>>),
      Dict(<<"Club Name", "State", "City", "Monthly Dues", "Contact Phone", "Website", "Address", "Prestige Level", "Membership Type", "Initiation Fee", "Other Costs">>,
         <<PyStr(<<"Olympic", " ", "Club">>),
           PyStr(<<"C", "A">>),
           PyStr(<<"San", " ", "Francisco">>),
           PyInt(4200),
           PyStr(<<"(415) 761-1234">>),
           PyStr(<<"https://", "www.olyclub.com">>),
           PyStr(<<"599 Skyline Blvd, San Francisco, CA 94132">>),
           PyStr(<<"Premier">>),
           PyStr(<<"Private">>),
           PyInt(75000),
           PyStr(<<"Athletic Club Access: $200/month; Pool: $150/month">>)>>),
      Dict(<<"Club Name", "State", "City", "Monthly Dues", "Contact Phone", "Website", "Address", "Prestige Level", "Membership Type", "Initiation Fee", "Other Costs">>,
         <<PyStr(<<"Winged", " ", "Foot", " ", "Golf", " ", "Club">>),
           PyStr(<<"N", "Y">>),
           PyStr(<<"Mamaroneck">>),
           PyInt(8200),
           PyStr(<<"(914) 698-8400">>),
           PyStr(<<"https://", "www.wfgc.org">>),
           PyStr(<<"851 Fenimore Rd, Mamaroneck, NY 10543">>),
           PyStr(<<"Elite">>),
           PyStr(<<"Private">>),
           PyInt(200000),
           PyStr(<<"Tennis Courts: $100/hour; Dining Minimum: $2500/year">>)>>),
      Dict(<<"Club Name", "State", "City", "Monthly Dues", "Contact Phone", "Website", "Address", "Prestige Level", "Membership Type", "Initiation Fee", "Other Costs">>,
         <<PyStr(<<"Oakmont", " ", "Country", " ", "Club">>),
           PyStr(<<"P", "A">>),
           PyStr(<<"Oakmont">>),
           PyInt(5500),
           PyStr(<<"(412) 828-8000">>),
           PyStr(<<"https://", "www.oakmontcountryclub.com">>),
           PyStr(<<"1233 Hulton Rd, Oakmont, PA 15139">>),
           PyStr(<<"Premier">>),
           PyStr(<<"Private">>),
           PyInt(100000),
           PyStr(<<"Pool Access: $1500/year; Cart Fees: $45/round">>)>>),
      Dict(<<"Club Name", "State", "City", "Monthly Dues", "Contact Phone", "Website", "Address", "Prestige Level", "Membership Type", "Initiation Fee", "Other Costs">>,
         <<PyStr(<<"Congressional", " ", "Country", " ", "Club">>),
           PyStr(<<"M", "D">>),
           PyStr(<<"Bethesda">>),
           PyInt(6200),
           PyStr(<<"(301) 469-2000">>),
           PyStr(<<"https://", "www.ccclub.org">>),
           PyStr(<<"8500 River Rd, Bethesda, MD 20817">>),
           PyStr(<<"Premier">>),
           PyStr(<<"Private">>),
           PyInt(150000),
           PyStr(<<"Valet Parking: $25/visit; Tennis: $125/hour">>)>>),
      Dict(<<"Club Name", "State", "City", "Monthly Dues", "Contact Phone", "Website", "Address", "Prestige Level", "Membership Type", "Initiation Fee", "Other Costs">>,
         <<PyStr(<<"Baltusrol", " ", "Golf", " ", "Club">>),
           PyStr(<<"N", "J">>),
           PyStr(<<"Springfield">>),
           PyInt(5800),
           PyStr(<<"(973) 376-1900">>),
           PyStr(<<"https://", "www.baltusrol.org">>),
           PyStr(<<"201 Shunpike Rd, Springfield, NJ 07081">>),
           PyStr(<<"Premier">>),
           PyStr(<<"Private">>),
           PyInt(110000),
           PyStr(<<"Range Balls: $15/bucket; Pool: $200/month">>)>>),
      Dict(<<"Club Name", "State", "City", "Monthly Dues", "Contact Phone", "Website", "Address", "Prestige Level", "Membership Type", "Initiation Fee", "Other Costs">>,
         <<PyStr(<<"Chicago", " ", "Golf", " ", "Club">>),
           PyStr(<<"I", "L">>),
           PyStr(<<"Wheaton">>),
           PyInt(7200),
           PyStr(<<"(630) 665-2988">>),
           PyStr(<<"https://", "www.chicagogolfclub.org">>),
           PyStr(<<"25W253 Warrenville Rd, Wheaton, IL 60189">>),
           PyStr(<<"Elite">>),
           PyStr(<<"Private">>),
           PyInt(180000),
           PyStr(<<"Bag Storage: $300/year; Dining Minimum: $2000/year">>)>>),
      Dict(<<"Club Name", "State", "City", "Monthly Dues", "Contact Phone", "Website", "Address", "Prestige Level", "Membership Type", "Initiation Fee", "Other Costs">>,
         <<PyStr(<<"Seminole", " ", "Golf", " ", "Club">>),
           PyStr(<<"F", "L">>),
           PyStr(<<"Juno", " ", "Beach">>),
           PyInt(9500),
           PyStr(<<"(561) 626-2000">>),
           PyStr(<<"https://", "www.seminolegolfclub.com">>),
           PyStr(<<"901 Seminole Blvd, Juno Beach, FL 33408">>),
           PyStr(<<"Elite">>),
           PyStr(<<"Private">>),
           PyInt(275000),
           PyStr(<<"Beach Club Access: $500/month; Valet: $40/visit">>)>>),
      Dict(<<"Club Name", "State", "City", "Monthly Dues", "Contact Phone", "Website", "Address", "Prestige Level", "Membership Type", "Initiation Fee", "Other Costs">>,
         <<PyStr(<<"TPC", " ", "Sawgrass">>),
           PyStr(<<"F", "L">>),
           PyStr(<<"Ponte", " ", "Vedra", " ", "Beach">>),
           PyInt(3500),
           PyStr(<<"(904) 273-3235">>),
           PyStr(<<"https://", "www.tpc.com/sawgrass">>),
           PyStr(<<"110 Championship Way, Ponte Vedra Beach, FL 32082">>),
           PyStr(<<"Championship">>),
           PyStr(<<"Semi-Private">>),
           PyInt(15000),
           PyStr(<<"Cart Fees: $55/round; Tournament Access: Premium">>)>>),
      Dict(<<"Club Name", "State", "City", "Monthly Dues", "Contact Phone", "Website", "Address", "Prestige Level", "Membership Type", "Initiation Fee", "Other Costs">>,
         <<PyStr(<<"Bandon", " ", "Dunes", " ", "Golf", " ", "Resort">>),
           PyStr(<<"O", "R">>),
           PyStr(<<"Bandon">>),
           PyInt(2800),
           PyStr(<<"(541) 347-4380">>),
           PyStr(<<"https://", "www.bandondunesgolf.com">>),
           PyStr(<<"57744 Round Lake Dr, Bandon, OR 97411">>),
           PyStr(<<"Destination">>),
           PyStr(<<"Resort">>),
           PyInt(8000),
           PyStr(<<"Lodge Discount: 20% off; Spa Access: $150/day">>)>>),
      Dict(<<"Club Name", "State", "City", "Monthly Dues", "Contact Phone", "Website", "Address", "Prestige Level", "Membership Type", "Initiation Fee", "Other Costs">>,
         <<PyStr(<<"Kiawah", " ", "Island", " ", "Golf", " ", "Resort">>),
           PyStr(<<"S", "C">>),
           PyStr(<<"Kiawah", " ", "Island">>),
           PyInt(4800),
           PyStr(<<"(843) 266-4670">>),
           PyStr(<<"https://", "www.kiawahresort.com">>),
           PyStr(<<"1 Sanctuary Beach Dr, Kiawah Island, SC 29455">>),
           PyStr(<<"Destination">>),
           PyStr(<<"Resort">>),
           PyInt(25000),
           PyStr(<<"Resort Amenities: $200/month; Beach Access: $100/day">>)>>),
      Dict(<<"Club Name", "State", "City", "Monthly Dues", "Contact Phone", "Website", "Address", "Prestige Level", "Membership Type", "Initiation Fee", "Other Costs">>,
         <<PyStr(<<"Whistling", " ", "Straits">>),
           PyStr(<<"W", "I">>),
           PyStr(<<"Haven">>),
           PyInt(3200),
           PyStr(<<"(920) 565-6080">>),
           PyStr(<<"https://", "www.destinationkohler.com">>),
           PyStr(<<"N8501 County Rd LS, Haven, WI 53083">>),
           PyStr(<<"Championship">>),
           PyStr(<<"Resort">>),
           PyInt(12000),
           PyStr(<<"Spa Access: $150/day; Hotel Discount: 15% off">>)>>),
      Dict(<<"Club Name", "State", "City", "Monthly Dues", "Contact Phone", "Website", "Address", "Prestige Level", "Membership Type", "Initiation Fee", "Other Costs">>,
         <<PyStr(<<"Bethpage", " ", "Black", " ", "Course">>),
           PyStr(<<"N", "Y">>),
           PyStr(<<"Farmingdale">>),
           PyInt(150),
           PyStr(<<"(516) 249-0700">>),
           PyStr(<<"https://", "www.nysparks.com">>),
           PyStr(<<"99 Quaker Meeting House Rd, Farmingdale, NY 11735">>),
           PyStr(<<"Public">>),
           PyStr(<<"Public">>),
           PyInt(0),
           PyStr(<<"Tee Time Reservations: $10; Cart Rental: $45/round">>)>>),
      Dict(<<"Club Name", "State", "City", "Monthly Dues", "Contact Phone", "Website", "Address", "Prestige Level", "Membership Type", "Initiation Fee", "Other Costs">>,
         <<PyStr(<<"Torrey", " ", "Pines", " ", "Golf", " ", "Course">>),
           PyStr(<<"C", "A">>),
           PyStr(<<"La", " ", "Jolla">>),
           PyInt(280),
           PyStr(<<"(858) 452-3226">>),
           PyStr(<<"https://", "www.sandiego.gov/golf">>),
           PyStr(<<"11480 N Torrey Pines Rd, La Jolla, CA 92037">>),
           PyStr(<<"Public">>),
           PyStr(<<"Municipal">>),
           PyInt(0),
           PyStr(<<"Cart Rental: $45/round; Twilight Rates: Available">>)>>),
      Dict(<<"Club Name", "State", "City", "Monthly Dues", "Contact Phone", "Website", "Address", "Prestige Level", "Membership Type", "Initiation Fee", "Other Costs">>,
         <<PyStr(<<"Chambers", " ", "Bay">>),
           PyStr(<<"W", "A">>),
           PyStr(<<"University", " ", "Place">>),
           PyInt(195),
           PyStr(<<"(253) 460-4653">>),
           PyStr(<<"https://", "www.chambersbaygolf.com">>),
           PyStr(<<"6320 Grandview Dr W, University Place, WA 98467">>),
           PyStr(<<"Championship">>),
           PyStr(<<"Public">>),
           PyInt(0),
           PyStr(<<"Walking Only Course; Caddie Service Available">>)>>),
      Dict(<<"Club Name", "State", "City", "Monthly Dues", "Contact Phone", "Website", "Address", "Prestige Level", "Membership Type", "Initiation Fee", "Other Costs">>,
         <<PyStr(<<"Trump", " ", "National", " ", "Golf", " ", "Club">>),
           PyStr(<<"F", "L">>),
           PyStr(<<"Jupiter">>),
           PyInt(12500),
           PyStr(<<"(561) 691-8700">>),
           PyStr(<<"https://", "www.trumpnationaljupiter.com">>),
           PyStr(<<"3505 W Clubhouse Dr, Jupiter, FL 33477">>),
           PyStr(<<"Luxury">>),
           PyStr(<<"Private">>),
           PyInt(200000),
           PyStr(<<"Spa Services: $300/treatment; Yacht Club Access: $800/month">>)>>),
      Dict(<<"Club Name", "State", "City", "Monthly Dues", "Contact Phone", "Website", "Address", "Prestige Level", "Membership Type", "Initiation Fee", "Other Costs">>,
         <<PyStr(<<"Shadow", " ", "Creek", " ", "Golf", " ", "Course">>),
           PyStr(<<"N", "V">>),
           PyStr(<<"North", " ", "Las", " ", "Vegas">>),
           PyInt(7500),
           PyStr(<<"(702) 791-7161">>),
           PyStr(<<"https://", "www.mgmresorts.com">>),
           PyStr(<<"3 Shadow Creek Dr, North Las Vegas, NV 89031">>),
           PyStr(<<"Ultra-Luxury">>),
           PyStr(<<"Private">>),
           PyInt(350000),
           PyStr(<<"Helicopter Transport: $1500/trip; Exclusive Experience">>)>>),
      Dict(<<"Club Name", "State", "City", "Monthly Dues", "Contact Phone", "Website", "Address", "Prestige Level", "Membership Type", "Initiation Fee", "Other Costs">>,
         <<PyStr(<<"Streamsong", " ", "Resort">>),
           PyStr(<<"F", "L">>),
           PyStr(<<"Bowling", " ", "Green">>),
           PyInt(4200),
           PyStr(<<"(863) 428-1000">>),
           PyStr(<<"https://", "www.streamsongresort.com">>),
           PyStr(<<"1000 Streamsong Dr, Bowling Green, FL 33834">>),
           PyStr(<<"Destination">>),
           PyStr(<<"Resort">>),
           PyInt(18000),
           PyStr(<<"Fishing Excursions: $400/day; Lodge Access: Premium">>)>>),
      Dict(<<"Club Name", "State", "City", "Monthly Dues", "Contact Phone", "Website", "Address", "Prestige Level", "Membership Type", "Initiation Fee", "Other Costs">>,
         <<PyStr(<<"Sand", " ", "Hills", " ", "Golf", " ", "Club">>),
           PyStr(<<"N", "E">>),
           PyStr(<<"Mullen">>),
           PyInt(8500),
           PyStr(<<"(308) 546-2237">>),
           PyStr(<<"https://", "www.sandhillsgolfclub.com">>),
           PyStr(<<"1901 Sand Hills Trail, Mullen, NE 69152">>),
           PyStr(<<"Elite">>),
           PyStr(<<"Private">>),
           PyInt(225000),
           PyStr(<<"Accommodations Required: $400/night; Remote Location Premium">>)>>),
      Dict(<<"Club Name", "State", "City", "Monthly Dues", "Contact Phone", "Website", "Address", "Prestige Level", "Membership Type", "Initiation Fee", "Other Costs">>,
         <<PyStr(<<"Prairie", " ", "Dunes", " ", "Country", " ", "Club">>),
           PyStr(<<"K", "S">>),
           PyStr(<<"Hutchinson">>),
           PyInt(3800),
           PyStr(<<"(620) 662-0581">>),
           PyStr(<<"https://", "www.prairiedunes.com">>),
           PyStr(<<"4812 E 30th Ave, Hutchinson, KS 67502">>),
           PyStr(<<"Traditional">>),
           PyStr(<<"Private">>),
           PyInt(65000),
           PyStr(<<"Swimming Pool: $100/month; Tennis Courts: $50/hour">>)>>)
    >>

(* fallback_data.py:350-359, multiplier in tenths *)
regions ==
    <<
      [state |-> <<"C", "A">>, cities |-> <<<<"Los", " ", "Angeles">>, <<"San", " ", "Diego">>, <<"Sacramento">>, <<"San", " ", "Jose">>>>, multiplier |-> 18],
      [state |-> <<"T", "X">>, cities |-> <<<<"Dallas">>, <<"Houston">>, <<"Austin">>, <<"San", " ", "Antonio">>>>, multiplier |-> 12],
      [state |-> <<"F", "L">>, cities |-> <<<<"Miami">>, <<"Tampa">>, <<"Orlando">>, <<"Jacksonville">>>>, multiplier |-> 14],
      [state |-> <<"N", "Y">>, cities |-> <<<<"Buffalo">>, <<"Rochester">>, <<"Albany">>, <<"White", " ", "Plains">>>>, multiplier |-> 17],
      [state |-> <<"I", "L">>, cities |-> <<<<"Chicago">>, <<"Rockford">>, <<"Peoria">>, <<"Springfield">>>>, multiplier |-> 13],
      [state |-> <<"O", "H">>, cities |-> <<<<"Columbus">>, <<"Cleveland">>, <<"Cincinnati">>, <<"Toledo">>>>, multiplier |-> 10],
      [state |-> <<"N", "C">>, cities |-> <<<<"Charlotte">>, <<"Raleigh">>, <<"Greensboro">>, <<"Asheville">>>>, multiplier |-> 11],
      [state |-> <<"G", "A">>, cities |-> <<<<"Atlanta">>, <<"Savannah">>, <<"Columbus">>, <<"Macon">>>>, multiplier |-> 11]
    >>

(* fallback_data.py:361-367 *)
club_types ==
    <<
      [club_type |-> <<"Country", " ", "Club">>, membership_type |-> <<"Private">>, prestige |-> <<"Premier">>],
      [club_type |-> <<"Golf", " ", "Club">>, membership_type |-> <<"Private">>, prestige |-> <<"Traditional">>],
      [club_type |-> <<"Golf", " ", "Course">>, membership_type |-> <<"Semi-Private">>, prestige |-> <<"Championship">>],
      [club_type |-> <<"Country", " ", "Club">>, membership_type |-> <<"Private">>, prestige |-> <<"Luxury">>],
      [club_type |-> <<"Golf", " ", "Links">>, membership_type |-> <<"Resort">>, prestige |-> <<"Destination">>]
    >>

(* s.lower().replace(' ', '') of the catalog's cities and club types *)
Slug(s) ==
    CASE s = <<"Albany">> -> "albany"
      [] s = <<"Asheville">> -> "asheville"
      [] s = <<"Atlanta">> -> "atlanta"
      [] s = <<"Austin">> -> "austin"
      [] s = <<"Buffalo">> -> "buffalo"
      [] s = <<"Charlotte">> -> "charlotte"
      [] s = <<"Chicago">> -> "chicago"
      [] s = <<"Cincinnati">> -> "cincinnati"
      [] s = <<"Cleveland">> -> "cleveland"
      [] s = <<"Columbus">> -> "columbus"
      [] s = <<"Country", " ", "Club">> -> "countryclub"
      [] s = <<"Dallas">> -> "dallas"
      [] s = <<"Golf", " ", "Club">> -> "golfclub"
      [] s = <<"Golf", " ", "Course">> -> "golfcourse"
      [] s = <<"Golf", " ", "Links">> -> "golflinks"
      [] s = <<"Greensboro">> -> "greensboro"
      [] s = <<"Houston">> -> "houston"
      [] s = <<"Jacksonville">> -> "jacksonville"
      [] s = <<"Los", " ", "Angeles">> -> "losangeles"
      [] s = <<"Macon">> -> "macon"
      [] s = <<"Miami">> -> "miami"
      [] s = <<"Orlando">> -> "orlando"
      [] s = <<"Peoria">> -> "peoria"
      [] s = <<"Raleigh">> -> "raleigh"
      [] s = <<"Rochester">> -> "rochester"
      [] s = <<"Rockford">> -> "rockford"
      [] s = <<"Sacramento">> -> "sacramento"
      [] s = <<"San", " ", "Antonio">> -> "sanantonio"
      [] s = <<"San", " ", "Diego">> -> "sandiego"
      [] s = <<"San", " ", "Jose">> -> "sanjose"
      [] s = <<"Savannah">> -> "savannah"
      [] s = <<"Springfield">> -> "springfield"
      [] s = <<"Tampa">> -> "tampa"
      [] s = <<"Toledo">> -> "toledo"
      [] s = <<"White", " ", "Plains">> -> "whiteplains"


-----------------------------------------------------------------------------
(* the generator state of `random`: the draws of a bulk loop are a         *)
(* function of the seed and of the iteration                               *)

MaxSeed == 3

Seeds == 0..MaxSeed

PickOf(n) == IF n % 2 = 0 THEN "lo" ELSE "hi"

RndOf(seed, i) ==
    [monthly |-> PickOf(seed + i),
     initiation |-> PickOf((seed \div 2) + i),
     costs |-> PickOf(seed + (i \div 2))]

-----------------------------------------------------------------------------
(* source providers *)

(* web_scraper.py:205-271 *)
scrape_golfday_top_clubs == top_clubs_data

(* web_scraper.py:273-398 *)
scrape_invited_clubs_data(seed) ==
    [i \in 1..Len(invited_clubs_data) |->
        enhance_club_data(invited_clubs_data[i], RndOf(seed, i))]

(* fallback_data.py:5-340 *)
get_fallback_country_club_data == DataFrame(clubs_data)

(* fallback_data.py:381-382 *)
phone_area_codes(state) ==
    CASE state = <<"C","A">> -> "(714)" [] state = <<"T","X">> -> "(214)"
      [] state = <<"F","L">> -> "(305)" [] state = <<"N","Y">> -> "(716)"
      [] state = <<"I","L">> -> "(312)" [] state = <<"O","H">> -> "(614)"
      [] state = <<"N","C">> -> "(704)" [] state = <<"G","A">> -> "(404)"
      [] OTHER -> "(555)"

(* random.choice(seq) *)
Choice(seq, p) == IF p = "lo" THEN seq[1] ELSE seq[Len(seq)]

(* the record of city j of region i with its club type drawn by           *)
(* random.choice(club_types) instead of taken in turn                      *)
SyntheticClubAnyType(i, j, seed) ==
    LET region == regions[i + 1]
        city == region.cities[j + 1]
        rnd == RndOf(seed, 4 * i + j)
        ct == Choice(club_types, rnd.costs)
        base_monthly == RandInt(2000, 8000, rnd.monthly)
        base_initiation == RandInt(25000, 150000, rnd.initiation)
        p == rnd.costs
    IN  Dict(<<"Club Name", "State", "City", "Monthly Dues", "Contact Phone",
               "Website", "Address", "Prestige Level", "Membership Type",
               "Initiation Fee", "Other Costs">>,
             <<PyStr(city \o <<" ">> \o ct.club_type),
               PyStr(region.state),
               PyStr(city),
               PyInt(Scale(base_monthly, region.multiplier)),
               PyStr(<<phone_area_codes(region.state), " ">>
                     \o IntStr(RandInt(100, 999, p)) \o <<"-">>
                     \o IntStr(RandInt(1000, 9999, p))),
               PyStr(<<"https://", "www.", Slug(city), Slug(ct.club_type), ".com">>),
               PyStr(IntStr(RandInt(100, 9999, p)) \o <<" ">>
                     \o <<Choice(<<"Main", "Oak", "Golf", "Country Club", "Championship">>, p)>>
                     \o <<" ">> \o <<Choice(<<"St", "Rd", "Ave", "Dr">>, p)>>
                     \o <<", ">> \o city \o <<", ">> \o region.state \o <<" ">>
                     \o IntStr(RandInt(10000, 99999, p))),
               PyStr(ct.prestige),
               PyStr(ct.membership_type),
               PyInt(Scale(base_initiation, region.multiplier)),
               PyStr(CostLine("Cart Fees: $", 35, 75, "/round", p) \o <<"; ">>
                     \o CostLine("Pool Access: $", 150, 300, "/month", p))>>)

(* fallback_data.py:369-396: the record of city j of region i (0-based) *)
SyntheticClub(i, j, seed) ==
    LET region == regions[i + 1]
        city == region.cities[j + 1]
        ct == club_types[((i + j) % Len(club_types)) + 1]
        rnd == RndOf(seed, 4 * i + j)
        base_monthly == RandInt(2000, 8000, rnd.monthly)
        base_initiation == RandInt(25000, 150000, rnd.initiation)
        p == rnd.costs
    IN  Dict(<<"Club Name", "State", "City", "Monthly Dues", "Contact Phone",
               "Website", "Address", "Prestige Level", "Membership Type",
               "Initiation Fee", "Other Costs">>,
             <<PyStr(city \o <<" ">> \o ct.club_type),
               PyStr(region.state),
               PyStr(city),
               PyInt(Scale(base_monthly, region.multiplier)),
               PyStr(<<phone_area_codes(region.state), " ">>
                     \o IntStr(RandInt(100, 999, p)) \o <<"-">>
                     \o IntStr(RandInt(1000, 9999, p))),
               PyStr(<<"https://", "www.", Slug(city), Slug(ct.club_type), ".com">>),
               PyStr(IntStr(RandInt(100, 9999, p)) \o <<" ">>
                     \o <<Choice(<<"Main", "Oak", "Golf", "Country Club", "Championship">>, p)>>
                     \o <<" ">> \o <<Choice(<<"St", "Rd", "Ave", "Dr">>, p)>>
                     \o <<", ">> \o city \o <<", ">> \o region.state \o <<" ">>
                     \o IntStr(RandInt(10000, 99999, p))),
               PyStr(ct.prestige),
               PyStr(ct.membership_type),
               PyInt(Scale(base_initiation, region.multiplier)),
               PyStr(CostLine("Cart Fees: $", 35, 75, "/round", p) \o <<"; ">>
                     \o CostLine("Pool Access: $", 150, 300, "/month", p))>>)

(* the generated records returned without the fixed ones *)
get_additional_club_data(seed) ==
    LET n == Len(regions[1].cities)
    IN  DataFrame([k \in 1..(Len(regions) * n) |->
                    SyntheticClub((k - 1) \div n, (k - 1) % n, seed)])

(* fallback_data.py:342-401 *)
get_extended_club_data(seed) ==
    LET n == Len(regions[1].cities)
        additional_clubs ==
            [k \in 1..(Len(regions) * n) |->
                SyntheticClub((k - 1) \div n, (k - 1) % n, seed)]
    IN  get_fallback_country_club_data \o DataFrame(additional_clubs)

-----------------------------------------------------------------------------
(* network extraction *)

(* web_scraper.py:419-428, opaque after the scheme *)
all_private_club_urls ==
    <<<<"https://", "www.usga.org/content/usga/home-page/articles/2019/08/the-most-exclusive-golf-clubs-in-america.html">>,
      <<"https://", "www.golfdigest.com/gallery/americas-100-greatest-golf-courses-2021-22">>,
      <<"https://", "www.golf.com/travel/courses/2019/08/26/most-exclusive-private-golf-clubs-america/">>,
      <<"https://", "www.clubcorp.com/our-clubs">>,
      <<"https://", "www.americangolf.com/club-directory">>,
      <<"https://", "www.troon.com/golf-clubs/">>,
      <<"https://", "www.discovery-land.com/clubs/">>,
      <<"https://", "www.eliteclub.com/directory">>>>

(* how many of the URLs a run visits *)
MaxUrls == 2

private_club_urls == SubSeq(all_private_club_urls, 1, MaxUrls)

(* len(content) of what get_website_text_content returns; 0 is the empty    *)
(* string of a failed fetch                                                *)
ContentLens == {0, 100, 101}

(* what trafilatura does in get_website_text_content: fetch_url or extract *)
(* raises, fetch_url returns nothing, or extract returns the text          *)
FetchOutcomes == {"raised", "none", "text"}

(* web_scraper.py:37-47, as len of the string returned: the text when one  *)
(* was extracted, '' after an exception or without a download             *)
get_website_text_content(how, n) == IF how = "text" THEN n ELSE 0

(* the fetches of one URL: what happened and len(content) *)
Fetches ==
    {[how |-> h, len |-> get_website_text_content(h, n)] :
        h \in FetchOutcomes, n \in ContentLens}

PineValley == <<"Pine", " ", "Valley", " ", "Golf", " ", "Club">>

(* JSON objects the extraction service may answer with *)
AIResponses ==
    { (* the key of a curated record, other fees *)
      Dict(<<"Club Name", "State", "City", "Address", "Contact Phone",
             "Prestige Level", "Membership Type", "Monthly Dues",
             "Initiation Fee", "Other Costs">>,
           <<PyStr(PineValley), PyStr(<<"N","J">>), PyStr(<<"Clementon">>),
             PyStr(<<"1 Main St">>), PyStr(<<"555-0100">>), PyStr(<<"Luxury">>),
             PyStr(<<"Private">>), PyInt(9999), PyInt(1),
             PyStr(<<"Cart Fees: $1/round">>)>>),
      (* the same key up to case and surrounding blanks, dues as text *)
      Dict(<<"Club Name", "State", "City", "Prestige Level", "Monthly Dues",
             "Initiation Fee", "Other Costs">>,
           <<PyStr(<<" ">> \o PineValley \o <<" ">>), PyStr(<<"n","j"," ">>),
             PyStr(<<"Clementon">>), PyStr(<<"Elite">>),
             PyStr(<<"$","1",",","2","0","0">>),
             PyStr(<<"$","1","2",",","5","0","0">>),
             PyStr(<<"Cart Fees: $1/round">>)>>),
      (* nothing found but a name: zeros and empty strings, as prompted *)
      Dict(<<"Club Name", "State", "City", "Address", "Contact Phone",
             "Website", "Prestige Level", "Membership Type", "Monthly Dues",
             "Initiation Fee", "Other Costs">>,
           <<PyStr(<<"Oak", " ", "Club">>), PyStr(<<"Z","Z">>), PyStr(<<>>),
             PyStr(<<>>), PyStr(<<>>), PyStr(<<>>), PyStr(<<"Exclusive">>),
             PyStr(<<>>), PyInt(0), PyInt(7), PyStr(<<"none">>)>>),
      (* dues that do not parse *)
      Dict(<<"Club Name", "State", "Prestige Level", "Monthly Dues",
             "Initiation Fee", "Other Costs">>,
           <<PyStr(<<"Oak", " ", "Club">>), PyStr(<<"c","a">>), PyStr(<<"Public">>),
             PyStr(<<"call us">>), PyStr(<<"call us">>), PyStr(<<"none">>)>>),
      (* negative dues *)
      Dict(<<"Club Name", "State", "Prestige Level", "Monthly Dues",
             "Initiation Fee", "Other Costs">>,
           <<PyStr(<<"Elm", " ", "Club">>), PyStr(<<"T","X">>), PyStr(<<"Resort">>),
             PyInt(-5), PyInt(3), PyStr(<<"none">>)>>),
      (* an array where a string was asked for *)
      Dict(<<"Club Name", "State", "Monthly Dues", "Initiation Fee", "Other Costs">>,
           <<PyStr(<<"Elm", " ", "Club">>), ListVal, PyInt(100), PyInt(3),
             PyStr(<<"none">>)>>),
      (* an array for the state and no dues: the estimate cannot look it up *)
      Dict(<<"Club Name", "State", "Monthly Dues", "Initiation Fee", "Other Costs">>,
           <<PyStr(<<"Elm", " ", "Club">>), ListVal, PyInt(0), PyInt(3),
             PyStr(<<"none">>)>>),
      (* no club on the page *)
      Dict(<<"Club Name", "State">>, <<PyStr(<<>>), PyStr(<<>>)>>) }

(* web_scraper.py:136-183: the parsed answer with its Website set, or {}    *)
(* when the service failed                                                 *)
ai_extract_club_info(answer, url) ==
    IF answer = EmptyDict THEN EmptyDict ELSE Put(answer, "Website", PyStr(url))

(* the call of line 193 without the test of line 192 *)
ExtractAlways(len) == TRUE

(* web_scraper.py:192: `if content and len(content) > 100` *)
ExtractCalled(len) == len > 100

(* what one iteration of the loop did: the URL it fetched, how the fetch   *)
(* went, len(content), whether it called ai_extract_club_info, the answer  *)
(* the service gave and the record ai_extract_club_info returned           *)
Visit(i, fetch, answer) ==
    [url |-> i, fetch |-> fetch.how, len |-> fetch.len,
     extracted |-> ExtractCalled(fetch.len),
     answer |-> IF ExtractCalled(fetch.len) THEN answer ELSE EmptyDict,
     info |-> IF ExtractCalled(fetch.len)
              THEN ai_extract_club_info(answer, private_club_urls[i])
              ELSE EmptyDict]

(* web_scraper.py:192-196: the records one URL adds to clubs *)
ScrapedFrom(len, answer, url, rnd) ==
    IF ExtractCalled(len)
    THEN LET club_info == ai_extract_club_info(answer, url)
         IN  IF /\ club_info # EmptyDict
                /\ ~Falsy(Get(club_info, "Club Name", PyStr(<<>>)))
                /\ ~EnhanceRaises(club_info)
             THEN <<enhance_club_data(club_info, rnd)>>
             ELSE <<>>
    ELSE <<>>

-----------------------------------------------------------------------------
(* aggregation *)

SameKey(r1, r2) ==
    r1["Club Name"] = r2["Club Name"] /\ r1["State"] = r2["State"]

RECURSIVE KeepFirst(_, _)
(* the rows of t whose key is in no earlier row, seen being the rows kept *)
KeepFirst(t, seen) ==
    IF t = <<>> THEN seen
    ELSE IF \E k \in 1..Len(seen) : SameKey(seen[k], Head(t))
         THEN KeepFirst(Tail(t), seen)
         ELSE KeepFirst(Tail(t), Append(seen, Head(t)))

RECURSIVE KeepLast(_)
(* the rows of t whose key is in no later row *)
KeepLast(t) ==
    IF t = <<>> THEN <<>>
    ELSE IF \E k \in 2..Len(t) : SameKey(t[k], Head(t))
         THEN KeepLast(Tail(t))
         ELSE <<Head(t)>> \o KeepLast(Tail(t))

(* drop_duplicates with keep='last' *)
drop_duplicates_last(t) == KeepLast(t)

(* df.drop_duplicates(subset=['Club Name', 'State'], keep='first') *)
drop_duplicates(t) == KeepFirst(t, <<>>)

(* TypeError: unhashable type, raised by drop_duplicates *)
Unhashable(t) ==
    \E i \in 1..Len(t) : t[i]["Club Name"].t = "list" \/ t[i]["State"].t = "list"

(* web_scraper.py:441-447 *)
Project(t) ==
    [i \in 1..Len(t) |->
        [c \in Columns |-> Get(t[i], c, PyStr(<<>>))]]

(* the table built from the records of the network alone, the two curated  *)
(* lists left out                                                          *)
AggregateScraped(clubs) ==
    IF Len(clubs) > Len(top_clubs_data) + Len(invited_clubs_data)
    THEN Project(drop_duplicates(DataFrame(
            SubSeq(clubs, Len(top_clubs_data) + Len(invited_clubs_data) + 1, Len(clubs)))))
    ELSE <<>>

(* web_scraper.py:434-450 *)
Aggregate(clubs) ==
    IF clubs # <<>>
    THEN Project(drop_duplicates(DataFrame(clubs)))
    ELSE <<>>

-----------------------------------------------------------------------------
(* load_country_clubs_data over the real sources *)

NoError == "none"
NoDataError == "No country club data available from any source."
FallbackError == "Error loading fallback data"

orch == <<df, result, caught, err, calls, source_table>>

(* the record of one source call *)
Call(fn, out) == [fn |-> fn, out |-> out]

(* how a returned table is recorded *)
Shape(t) == IF Len(t) = 0 THEN "empty" ELSE "rows"
enh == <<club_data, enhanced1, enhanced2>>
gather == <<all_clubs, url_i, scrape_log>>
cln == <<clean_in, clean_out, clean_out2>>

Init ==
    /\ pc = "load"
    /\ scraper_ok \in BOOLEAN
    /\ all_clubs = <<>>
    /\ url_i = 1
    /\ df = <<>>
    /\ result = <<>>
    /\ caught = NoError
    /\ err = NoError
    /\ calls = <<>>
    /\ club_data = EmptyDict
    /\ enhanced1 = EmptyDict
    /\ enhanced2 = EmptyDict
    /\ source_table = <<>>
    /\ scrape_log = <<>>
    /\ clean_in = <<>>
    /\ clean_out = <<>>
    /\ clean_out2 = <<>>

(* web_scraper.py:402: OpenAI() raises without an API key; the exception   *)
(* leaves get_comprehensive_club_data and reaches data_loader.py:37        *)
ScraperRaises ==
    /\ pc = "load"
    /\ ~scraper_ok
    /\ pc' = "except"
    /\ caught' = "OpenAIError"
    /\ calls' = Append(calls, Call("primary", "raised"))
    /\ UNCHANGED <<scraper_ok, gather, df, result, err, source_table, enh, cln>>

(* web_scraper.py:402-415 *)
CollectCurated ==
    /\ pc = "load"
    /\ scraper_ok
    /\ \E seed \in Seeds :
        all_clubs' = scrape_golfday_top_clubs \o scrape_invited_clubs_data(seed)
    /\ url_i' = 1
    /\ scrape_log' = <<>>
    /\ pc' = "scrape"
    /\ UNCHANGED <<scraper_ok, orch, enh, cln>>

(* the loop with its try around the whole of it: an exception in one       *)
(* iteration ends the loop                                                 *)
ScrapeUrlAborting ==
    /\ pc = "scrape"
    /\ url_i <= Len(private_club_urls)
    /\ \E fetch \in Fetches, answer \in AIResponses \cup {EmptyDict}, rnd \in Rnd :
        /\ all_clubs' = all_clubs \o ScrapedFrom(fetch.len, answer, private_club_urls[url_i], rnd)
        /\ scrape_log' = Append(scrape_log, Visit(url_i, fetch, answer))
        /\ url_i' = IF /\ ExtractCalled(fetch.len)
                       /\ answer # EmptyDict
                       /\ EnhanceRaises(ai_extract_club_info(answer, private_club_urls[url_i]))
                    THEN Len(private_club_urls) + 1
                    ELSE url_i + 1
    /\ UNCHANGED <<pc, scraper_ok, orch, enh, cln>>

(* web_scraper.py:189-201, one iteration; 430-431 *)
ScrapeUrl ==
    /\ pc = "scrape"
    /\ url_i <= Len(private_club_urls)
    /\ \E fetch \in Fetches, answer \in AIResponses \cup {EmptyDict}, rnd \in Rnd :
        /\ all_clubs' = all_clubs \o ScrapedFrom(fetch.len, answer, private_club_urls[url_i], rnd)
        /\ scrape_log' = Append(scrape_log, Visit(url_i, fetch, answer))
    /\ url_i' = url_i + 1
    /\ UNCHANGED <<pc, scraper_ok, orch, enh, cln>>

(* web_scraper.py:434-450, data_loader.py:21 *)
PrimaryReturns ==
    /\ pc = "scrape"
    /\ url_i > Len(private_club_urls)
    /\ ~Unhashable(DataFrame(all_clubs))
    /\ df' = Aggregate(all_clubs)
    /\ calls' = Append(calls, Call("primary", Shape(df')))
    /\ pc' = "L24"
    /\ source_table' = df'
    /\ UNCHANGED <<scraper_ok, gather, result, caught, err, enh, cln>>

(* web_scraper.py:439 raising, caught at data_loader.py:37 *)
PrimaryRaises ==
    /\ pc = "scrape"
    /\ url_i > Len(private_club_urls)
    /\ Unhashable(DataFrame(all_clubs))
    /\ pc' = "except"
    /\ caught' = "TypeError"
    /\ calls' = Append(calls, Call("primary", "raised"))
    /\ UNCHANGED <<scraper_ok, gather, df, result, err, source_table, enh, cln>>

(* what a call of get_extended_club_data can do *)
ExtendedOutcomes ==
    {[raised |-> FALSE, table |-> get_extended_club_data(seed)] : seed \in Seeds}

(* data_loader.py:24, the table is not empty *)
PrimaryNonEmpty ==
    /\ pc = "L24"
    /\ ~Empty(df)
    /\ pc' = "L29"
    /\ UNCHANGED <<scraper_ok, gather, orch, enh, cln>>

(* the fallback call of line 26 without the test of line 24 *)
FallbackAlways(outcomes) ==
    /\ pc = "L24"
    /\ \E o \in outcomes :
        /\ ~o.raised
        /\ df' = o.table
        /\ calls' = Append(calls, Call("fallback", Shape(o.table)))
    /\ pc' = "L29"
    /\ source_table' = df'
    /\ UNCHANGED <<scraper_ok, gather, result, caught, err, enh, cln>>

(* data_loader.py:24-26 *)
FallbackOnEmpty(outcomes) ==
    /\ pc = "L24"
    /\ Empty(df)
    /\ \E o \in outcomes :
        /\ ~o.raised
        /\ df' = o.table
        /\ calls' = Append(calls, Call("fallback", Shape(o.table)))
    /\ pc' = "L29"
    /\ source_table' = df'
    /\ UNCHANGED <<scraper_ok, gather, result, caught, err, enh, cln>>

(* data_loader.py:26 raising, caught at 37 *)
FallbackOnEmptyRaises(outcomes) ==
    /\ pc = "L24"
    /\ Empty(df)
    /\ \E o \in outcomes : o.raised
    /\ calls' = Append(calls, Call("fallback", "raised"))
    /\ pc' = "except"
    /\ caught' = "Exception"
    /\ UNCHANGED <<scraper_ok, gather, df, result, err, source_table, enh, cln>>

(* data_loader.py:29-30: the ValueError is raised inside the try block and *)
(* caught at 37                                                            *)
RaiseNoData ==
    /\ pc = "L29"
    /\ Empty(df)
    /\ pc' = "except"
    /\ caught' = NoDataError
    /\ UNCHANGED <<scraper_ok, gather, df, result, err, calls, source_table, enh, cln>>

(* a return of the table as the source gave it *)
ReturnUncleaned ==
    /\ pc = "L29"
    /\ ~Empty(df)
    /\ result' = df
    /\ pc' = "done"
    /\ UNCHANGED <<scraper_ok, gather, df, caught, err, calls, source_table, enh, cln>>

(* data_loader.py:29-35 *)
CleanAndReturn ==
    /\ pc = "L29"
    /\ ~Empty(df)
    /\ df' = clean_and_validate_data(df)
    /\ result' = df'
    /\ pc' = "done"
    /\ UNCHANGED <<scraper_ok, gather, caught, err, calls, source_table, enh, cln>>

(* data_loader.py:37-42 *)
HandlerFallback(outcomes) ==
    /\ pc = "except"
    /\ \E o \in outcomes :
        /\ ~o.raised
        /\ df' = o.table
        /\ calls' = Append(calls, Call("fallback", Shape(o.table)))
    /\ pc' = "L43"
    /\ source_table' = df'
    /\ UNCHANGED <<scraper_ok, gather, result, caught, err, enh, cln>>

(* an except clause that gives up: the exception it caught goes to the     *)
(* caller                                                                  *)
HandlerReraises ==
    /\ pc = "L43"
    /\ err' = caught
    /\ pc' = "fail"
    /\ UNCHANGED <<scraper_ok, gather, df, result, caught, calls, source_table, enh, cln>>

(* data_loader.py:43-44 *)
HandlerCleanAndReturn ==
    /\ pc = "L43"
    /\ df' = clean_and_validate_data(df)
    /\ result' = df'
    /\ pc' = "done"
    /\ UNCHANGED <<scraper_ok, gather, caught, err, calls, source_table, enh, cln>>

(* data_loader.py:42 raising, 45-46 *)
HandlerRaises(outcomes) ==
    /\ pc = "except"
    /\ \E o \in outcomes : o.raised
    /\ calls' = Append(calls, Call("fallback", "raised"))
    /\ err' = FallbackError
    /\ pc' = "fail"
    /\ UNCHANGED <<scraper_ok, gather, df, result, caught, source_table, enh, cln>>

(* get_comprehensive_club_data always returns the curated records and      *)
(* get_extended_club_data never raises, so the branches of lines 24-30 and *)
(* 45-46 that need an empty table or a raising fallback are never taken    *)
Next ==
    \/ ScraperRaises
    \/ CollectCurated
    \/ ScrapeUrl
    \/ PrimaryReturns
    \/ PrimaryRaises
    \/ PrimaryNonEmpty
    \/ CleanAndReturn
    \/ HandlerFallback(ExtendedOutcomes)
    \/ HandlerCleanAndReturn

Spec == Init /\ [][Next]_vars

(* the for loop of web_scraper.py:189 runs on: every iteration returns,    *)
(* the fetch by its time-out and the rest by the except of line 200, so a  *)
(* started run is never stopped in the middle of the list                  *)
SpecFair == Spec /\ WF_vars(ScrapeUrl)

-----------------------------------------------------------------------------
(* load_country_clubs_data against every outcome of its two sources: each  *)
(* call returns some table, possibly empty, or raises                      *)

MaxStubRows == 2

(* rows a source table may hold: two valid ones, one whose dues do not     *)
(* parse, one with a blank name                                            *)
StubRows ==
    { DataFrame(top_clubs_data)[1],
      DataFrame(top_clubs_data)[2],
      [DataFrame(top_clubs_data)[3] EXCEPT !["Monthly Dues"] = PyStr(<<"call us">>)],
      [DataFrame(top_clubs_data)[4] EXCEPT !["Club Name"] = PyStr(<<" ">>)] }

StubTables == UNION {[1..n -> StubRows] : n \in 0..MaxStubRows}

StubOutcomes ==
    {[raised |-> FALSE, table |-> t] : t \in StubTables}
        \cup {[raised |-> TRUE, table |-> <<>>]}

(* data_loader.py:21 *)
StubPrimaryReturns ==
    /\ pc = "load"
    /\ \E o \in StubOutcomes :
        /\ ~o.raised
        /\ df' = o.table
        /\ calls' = Append(calls, Call("primary", Shape(o.table)))
    /\ pc' = "L24"
    /\ source_table' = df'
    /\ UNCHANGED <<scraper_ok, gather, result, caught, err, enh, cln>>

(* data_loader.py:21 raising, caught at 37 *)
StubPrimaryRaises ==
    /\ pc = "load"
    /\ \E o \in StubOutcomes : o.raised
    /\ pc' = "except"
    /\ caught' = "Exception"
    /\ calls' = Append(calls, Call("primary", "raised"))
    /\ UNCHANGED <<scraper_ok, gather, df, result, err, source_table, enh, cln>>

InitOrch == Init /\ scraper_ok

NextOrch ==
    \/ StubPrimaryReturns
    \/ StubPrimaryRaises
    \/ PrimaryNonEmpty
    \/ FallbackOnEmpty(StubOutcomes)
    \/ FallbackOnEmptyRaises(StubOutcomes)
    \/ RaiseNoData
    \/ CleanAndReturn
    \/ HandlerFallback(StubOutcomes)
    \/ HandlerCleanAndReturn
    \/ HandlerRaises(StubOutcomes)

SpecOrch == InitOrch /\ [][NextOrch]_vars

(* the call is one thread of sequential code: a step that can be taken is  *)
(* taken                                                                   *)
SpecOrchFair == SpecOrch /\ WF_vars(NextOrch)

-----------------------------------------------------------------------------
(* enhance_club_data applied twice to any record *)

(* a field of the input: absent, falsy or present *)
Presence == {"absent", "falsy", "present"}

EnhanceInput(prestige, state, dues, fee, costs) ==
    LET base == Dict(<<"Club Name">>, <<PyStr(<<"Oak", " ", "Club">>)>>)
        r1 == CASE prestige = <<>> -> base
                [] prestige = <<"">> -> Put(base, "Prestige Level", PyStr(<<>>))
                [] OTHER -> Put(base, "Prestige Level", PyStr(prestige))
        r2 == IF state = <<>> THEN r1 ELSE Put(r1, "State", PyStr(state))
        r3 == CASE dues = "absent" -> r2
                [] dues = "falsy" -> Put(r2, "Monthly Dues", PyInt(0))
                [] dues = "present" -> Put(r2, "Monthly Dues", PyInt(1234))
        r4 == CASE fee = "absent" -> r3
                [] fee = "falsy" -> Put(r3, "Initiation Fee", PyInt(0))
                [] fee = "present" -> Put(r3, "Initiation Fee", PyStr(<<"$","5","0">>))
        r5 == CASE costs = "absent" -> r4
                [] costs = "falsy" -> Put(r4, "Other Costs", PyStr(<<>>))
                [] costs = "present" -> Put(r4, "Other Costs", PyStr(<<"none">>))
    IN  r5

(* <<>> stands for a record without the key, <<"">> for the empty string *)
EnhancePrestiges == {<<t>> : t \in Tiers} \cup {<<"Exclusive">>, <<"">>, <<>>}
EnhanceStates == {<<"C","A">>, <<"F","L">>, <<"O","H">>, <<"c","a">>, <<>>}

EnhanceInputs ==
    { EnhanceInput(p, st, d, f, c) :
        p \in EnhancePrestiges, st \in EnhanceStates,
        d \in Presence, f \in Presence, c \in Presence }

InitEnhance ==
    /\ pc = "enhance"
    /\ scraper_ok = TRUE
    /\ all_clubs = <<>>
    /\ url_i = 1
    /\ df = <<>>
    /\ result = <<>>
    /\ caught = NoError
    /\ err = NoError
    /\ calls = <<>>
    /\ club_data \in EnhanceInputs
    /\ enhanced1 = EmptyDict
    /\ enhanced2 = EmptyDict
    /\ source_table = <<>>
    /\ scrape_log = <<>>
    /\ clean_in = <<>>
    /\ clean_out = <<>>
    /\ clean_out2 = <<>>

(* enhanced1 = scraper.enhance_club_data(club_data) *)
EnhanceOnce ==
    /\ pc = "enhance"
    /\ \E rnd \in Rnd : enhanced1' = enhance_club_data(club_data, rnd)
    /\ pc' = "enhanced"
    /\ UNCHANGED <<scraper_ok, gather, orch, club_data, enhanced2, cln>>

(* enhanced2 = scraper.enhance_club_data(enhanced1) *)
EnhanceAgain ==
    /\ pc = "enhanced"
    /\ \E rnd \in Rnd : enhanced2' = enhance_club_data(enhanced1, rnd)
    /\ pc' = "enhanced twice"
    /\ UNCHANGED <<scraper_ok, gather, orch, club_data, enhanced1, cln>>

NextEnhance == EnhanceOnce \/ EnhanceAgain

SpecEnhance == InitEnhance /\ [][NextEnhance]_vars

-----------------------------------------------------------------------------
(* clean_and_validate_data applied twice to any table *)

(* how many rows a table passed in may have *)
MaxCleanRows == 2

OakClub == <<"Oak", " ", "Club">>
ElmClub == <<"Elm", " ", "Club">>
AshClub == <<"Ash", " ", "Club">>

(* a row of a table of the eleven columns *)
CleanRow(name, state, dues, fee, website) ==
    [DataFrame(top_clubs_data)[1] EXCEPT
        !["Club Name"] = name, !["State"] = state, !["Monthly Dues"] = dues,
        !["Initiation Fee"] = fee, !["Website"] = website]

(* the row with every optional text cell set to v *)
WithText(r, v) ==
    [r EXCEPT !["City"] = v, !["Contact Phone"] = v, !["Website"] = v,
              !["Address"] = v, !["Prestige Level"] = v,
              !["Membership Type"] = v, !["Other Costs"] = v]

(* rows the table passed in may hold: names and states with blanks and in  *)
(* lower case, fees as text with '$' and ',', as numbers, as text that is  *)
(* no number, negative and missing, websites with and without a scheme     *)
CleanRows ==
    { CleanRow(PyStr(<<" ", " ">> \o OakClub \o <<" ">>), PyStr(<<"c","a">>),
               PyStr(<<"$","1",",","2","0","0">>),
               PyStr(<<"$","1","2",",","5","0","0">>), PyStr(<<"www.oak.com">>)),
      CleanRow(PyStr(ElmClub), PyStr(<<" ","n","y"," ">>), PyInt(500),
               PyStr(<<"call us">>), PyStr(<<"https://", "www.elm.com">>)),
      CleanRow(PyStr(ElmClub), PyStr(<<"T","X">>), PyStr(<<"call us">>),
               PyInt(7), NaN),
      CleanRow(PyStr(<<" ">>), PyStr(<<"C","A">>), PyInt(500), PyInt(7),
               PyStr(<<>>)),
      CleanRow(NaN, PyStr(<<"C","A">>), PyInt(500), PyInt(7),
               PyStr(<<"http://", "www.none.com">>)),
      CleanRow(PyStr(<<>>), PyStr(<<"C","A">>), PyInt(500), PyInt(7), NaN),
      CleanRow(PyStr(AshClub), NaN, PyNum(1200), NaN, PyStr(<<" ">>)),
      CleanRow(PyStr(AshClub), PyStr(<<"F","L">>), PyInt(-5), PyInt(-5),
               PyStr(<<"www.ash.com">>)),
      CleanRow(PyStr(AshClub), PyStr(<<"F","L">>), NaN,
               PyStr(<<"$","1","2",",","5","0","0">>), PyStr(<<>>)),
      CleanRow(PyStr(OakClub), PyStr(<<"G","A">>),
               PyStr(<<"$","1","2",",","5","0","0">>), PyStr(<<>>),
               PyStr(<<" ", "www.oak.com", " ">>)),
      (* a negative Initiation Fee beside valid dues *)
      CleanRow(PyStr(OakClub), PyStr(<<"T","X">>), PyNum(1200), PyInt(-5),
               PyStr(<<"www.oak.com">>)),
      (* optional text cells that are missing, and that hold the text 'nan' *)
      WithText(CleanRow(PyStr(ElmClub), PyStr(<<"N","J">>), PyInt(500),
                        PyInt(7), NaN), NaN),
      WithText(CleanRow(PyStr(AshClub), PyStr(<<"N","J">>), PyInt(500),
                        PyInt(7), NaN), PyStr(<<" ", "nan">>)) }

CleanTables == UNION {[1..n -> CleanRows] : n \in 0..MaxCleanRows}

InitClean ==
    /\ pc = "clean"
    /\ scraper_ok = TRUE
    /\ all_clubs = <<>>
    /\ url_i = 1
    /\ df = <<>>
    /\ result = <<>>
    /\ caught = NoError
    /\ err = NoError
    /\ calls = <<>>
    /\ club_data = EmptyDict
    /\ enhanced1 = EmptyDict
    /\ enhanced2 = EmptyDict
    /\ source_table = <<>>
    /\ scrape_log = <<>>
    /\ clean_in \in CleanTables
    /\ clean_out = <<>>
    /\ clean_out2 = <<>>

(* the normaliser working on the caller's table instead of on a copy *)
CleanOnceInPlace ==
    /\ pc = "clean"
    /\ clean_out' = clean_and_validate_data(clean_in)
    /\ clean_in' = clean_out'
    /\ pc' = "cleaned"
    /\ UNCHANGED <<scraper_ok, gather, orch, enh, clean_out2>>

(* clean_out = clean_and_validate_data(clean_in) *)
CleanOnce ==
    /\ pc = "clean"
    /\ clean_out' = clean_and_validate_data(clean_in)
    /\ pc' = "cleaned"
    /\ UNCHANGED <<scraper_ok, gather, orch, enh, clean_in, clean_out2>>

(* clean_out2 = clean_and_validate_data(clean_out) *)
CleanAgain ==
    /\ pc = "cleaned"
    /\ clean_out2' = clean_and_validate_data(clean_out)
    /\ pc' = "cleaned twice"
    /\ UNCHANGED <<scraper_ok, gather, orch, enh, clean_in, clean_out>>

NextClean == CleanOnce \/ CleanAgain

SpecClean == InitClean /\ [][NextClean]_vars

-----------------------------------------------------------------------------
(* properties *)

Returned == pc = "done"

Rows(t) == {t[i] : i \in 1..Len(t)}

(* the curated records at the head of all_clubs *)
NumCurated == Len(top_clubs_data) + Len(invited_clubs_data)

(* C1: every call that returns a table returns one with at least one row,  *)
(* whatever the two sources return or raise and whatever the rows hold     *)
C1_ReturnedTableNonEmpty == Returned => ~Empty(result)

(* C2: when the primary source returned an empty table and every call of   *)
(* the fallback source returned an empty table, the call ends by raising   *)
(* the 'no data available from any source' error and returns no table      *)
C2_BothEmptyRaisesNoData ==
    ( /\ pc \in {"done", "fail"}
      /\ calls # <<>>
      /\ calls[1] = Call("primary", "empty")
      /\ \A k \in 2..Len(calls) : calls[k] = Call("fallback", "empty") )
    => (pc = "fail" /\ err = NoDataError)

(* C3: when scrape_private_clubs_with_ai added no record for any URL, the  *)
(* table load_country_clubs_data returns is not empty                      *)
C3_NonEmptyWithoutNetworkRecords ==
    (Returned /\ Len(all_clubs) <= NumCurated) => ~Empty(result)

C3_Witness ==
    /\ Returned
    /\ url_i > Len(private_club_urls)
    /\ Len(all_clubs) = NumCurated
    /\ caught = NoError
    /\ ~Empty(result)

(* C4: in the returned table every row's Monthly Dues is a parsed number   *)
(* that is not negative                                                    *)
C4_MonthlyDuesParsedNonNegative ==
    Returned =>
        \A r \in Rows(result) : r["Monthly Dues"].t = "num" /\ r["Monthly Dues"].n >= 0

C4_Witness ==
    /\ Returned
    /\ caught = NoError
    /\ \E i \in 1..Len(all_clubs) : all_clubs[i]["Monthly Dues"] = PyInt(-5)
    /\ \E i \in 1..Len(all_clubs) : all_clubs[i]["Monthly Dues"] = PyStr(<<"call us">>)
    /\ Len(result) = NumCurated

(* data_loader.py:143-155 *)
us_states ==
    {<<"A","L">>, <<"A","K">>, <<"A","Z">>, <<"A","R">>, <<"C","A">>,
     <<"C","O">>, <<"C","T">>, <<"D","E">>, <<"F","L">>, <<"G","A">>,
     <<"H","I">>, <<"I","D">>, <<"I","L">>, <<"I","N">>, <<"I","A">>,
     <<"K","S">>, <<"K","Y">>, <<"L","A">>, <<"M","E">>, <<"M","D">>,
     <<"M","A">>, <<"M","I">>, <<"M","N">>, <<"M","S">>, <<"M","O">>,
     <<"M","T">>, <<"N","E">>, <<"N","V">>, <<"N","H">>, <<"N","J">>,
     <<"N","M">>, <<"N","Y">>, <<"N","C">>, <<"N","D">>, <<"O","H">>,
     <<"O","K">>, <<"O","R">>, <<"P","A">>, <<"R","I">>, <<"S","C">>,
     <<"S","D">>, <<"T","N">>, <<"T","X">>, <<"U","T">>, <<"V","T">>,
     <<"V","A">>, <<"W","A">>, <<"W","V">>, <<"W","I">>, <<"W","Y">>,
     <<"D","C">>}

(* C5: in the returned table every row's State is one of the 51 codes      *)
C5_StateInClosedSet ==
    Returned =>
        \A r \in Rows(result) : r["State"].t = "str" /\ r["State"].s \in us_states

(* C6: in the returned table no two rows share (Club Name, State)          *)
C6_KeyUniqueInReturnedTable ==
    Returned =>
        \A i, j \in 1..Len(result) : SameKey(result[i], result[j]) => i = j

(* the row pd.DataFrame makes of one record, on the required columns *)
RowOf(rec) == [c \in Columns |-> Get(rec, c, NaN)]

RawKeyEq(r1, r2) ==
    /\ Get(r1, "Club Name", NaN) = Get(r2, "Club Name", NaN)
    /\ Get(r1, "State", NaN) = Get(r2, "State", NaN)

(* C7: when a curated record and a network-extracted record share          *)
(* (Club Name, State), the merged table of get_comprehensive_club_data has *)
(* exactly one row with that key, the curated record as enriched; the      *)
(* table of get_extended_club_data has no key twice                        *)
C7_PriorityWins ==
    /\ pc = "L24" =>
        \A i \in 1..NumCurated, j \in (NumCurated + 1)..Len(all_clubs) :
            RawKeyEq(all_clubs[i], all_clubs[j]) =>
                /\ Cardinality({k \in 1..Len(df) : RawKeyEq(df[k], all_clubs[i])}) = 1
                /\ \A k \in 1..Len(df) :
                    RawKeyEq(df[k], all_clubs[i]) => df[k] = RowOf(all_clubs[i])
    /\ pc = "L43" =>
        \A i, j \in 1..Len(df) : SameKey(df[i], df[j]) => i = j

C7_Witness ==
    /\ pc = "L24"
    /\ \E i \in 1..NumCurated, j \in (NumCurated + 1)..Len(all_clubs) :
        /\ RawKeyEq(all_clubs[i], all_clubs[j])
        /\ all_clubs[i]["Monthly Dues"] = PyInt(15000)
        /\ all_clubs[j]["Monthly Dues"] = PyInt(9999)
        /\ \E k \in 1..Len(df) :
            RawKeyEq(df[k], all_clubs[i]) /\ df[k]["Monthly Dues"] = PyInt(15000)

(* C8: enhance_club_data(enhance_club_data(r)) = enhance_club_data(r) for  *)
(* every record r and every pair of draws                                  *)
C8_EnhanceIdempotent == pc = "enhanced twice" => enhanced2 = enhanced1

(* web_scraper.py:54-61: the fields enhance_club_data may set *)
Fillable == {"Monthly Dues", "Initiation Fee", "Other Costs"}

(* C9: the result of enhance_club_data has the input's value on every key  *)
(* of the input that is not a missing or falsy Monthly Dues, Initiation    *)
(* Fee or Other Costs, adds no other key than those three, and the input   *)
(* record keeps its value                                                  *)
C9_EnhanceKeepsPresentFields ==
    /\ [](pc \in {"enhanced", "enhanced twice"} =>
            /\ DOMAIN enhanced1 = DOMAIN club_data \cup Fillable
            /\ \A k \in DOMAIN club_data :
                (k \notin Fillable \/ ~Falsy(club_data[k])) =>
                    enhanced1[k] = club_data[k])
    /\ [][club_data' = club_data]_vars

C9_Witness ==
    /\ pc = "enhanced"
    /\ "Monthly Dues" \in DOMAIN club_data
    /\ club_data["Monthly Dues"] = PyInt(1234)
    /\ enhanced1["Monthly Dues"] = PyInt(1234)
    /\ "Initiation Fee" \notin DOMAIN club_data
    /\ enhanced1["Initiation Fee"].n > 0

(* C10: in the returned table every row's Prestige Level is one of the ten *)
(* labels of the pricing table                                             *)
C10_PrestigeInClosedSet ==
    Returned =>
        \A r \in Rows(result) :
            r["Prestige Level"].t = "str" /\ r["Prestige Level"].s \in {<<t>> : t \in Tiers}

(* C11: every row of the table load_country_clubs_data returns has exactly *)
(* the eleven canonical columns, on the primary path and on the fallback   *)
(* path, also when a source record came without some of them               *)
C11_AllCanonicalColumns ==
    Returned =>
        \A r \in Rows(result) :
            DOMAIN r = {"Club Name", "State", "City", "Monthly Dues",
                        "Contact Phone", "Website", "Address", "Prestige Level",
                        "Membership Type", "Initiation Fee", "Other Costs"}

C11_Witness ==
    /\ Returned
    /\ caught = NoError
    /\ \E i \in (NumCurated + 1)..Len(all_clubs) :
        /\ "Address" \notin DOMAIN all_clubs[i]
        /\ \E r \in Rows(result) :
            /\ r["Website"] = all_clubs[i]["Website"]
            /\ r["Address"] = PyStr(<<>>)

(* a row that normalization keeps: its name is not blank and its dues      *)
(* parse to a number that is not negative                                  *)
ValidRow(r) ==
    /\ Strip(AsStr(r["Club Name"])) # <<>>
    /\ ValidDues(ParseMoney(r["Monthly Dues"]))

C13_FourStateMachine ==
    /\ [](\A k \in 1..Len(calls) :
            /\ calls[k].fn = "primary" <=> k = 1
            /\ k > 1 => calls[1].out \in {"empty", "raised"})
    /\ []((Returned /\ calls[1] = Call("primary", "rows")) =>
            /\ Len(calls) = 1
            /\ caught = NoError
            /\ result = clean_and_validate_data(source_table))
    /\ [][pc \notin {"done", "fail"}]_vars
    /\ <>(pc \in {"done", "fail"})

C13_Witness ==
    /\ Returned
    /\ calls = <<Call("primary", "rows")>>
    /\ Len(source_table) = 2
    /\ Len(result) = 1

(* C14: the table a call returns is clean_and_validate_data of the table   *)
(* the last source call returned, whichever of the three paths the call    *)
(* took, and no table is handed to the caller before that                  *)
C14_ReturnedTableIsNormalized ==
    /\ Returned =>
        /\ calls # <<>>
        /\ calls[Len(calls)].out = Shape(source_table)
        /\ result = clean_and_validate_data(source_table)
    /\ ~Returned => result = <<>>

C14_Witness ==
    /\ Returned
    /\ caught = NoError
    /\ calls = <<Call("primary", "empty"), Call("fallback", "rows")>>
    /\ Len(source_table) = 2
    /\ Len(result) = 1

(* C15: for a record whose Prestige Level is a tier of the pricing table,  *)
(* with ranges (lo, hi), and whose State has multiplier m, a Monthly Dues  *)
(* that enhance_club_data fills lies in [lo*m, hi*m] of the monthly range  *)
(* and an Initiation Fee that it fills lies in [lo*m, hi*m] of the         *)
(* initiation range; m is in tenths, so the bounds are compared times ten  *)
C15_FilledFeesInScaledRange ==
    ( /\ pc = "enhanced"
      /\ "Prestige Level" \in DOMAIN club_data
      /\ InPricing(club_data["Prestige Level"]) )
    => LET tier == base_pricing[club_data["Prestige Level"].s[1]]
           m10 == Multiplier(Get(club_data, "State", PyStr(<<"Unknown">>)))
       IN  /\ Missing(club_data, "Monthly Dues") =>
                /\ tier.monthly[1] * m10 <= 10 * enhanced1["Monthly Dues"].n
                /\ 10 * enhanced1["Monthly Dues"].n <= tier.monthly[2] * m10
           /\ Missing(club_data, "Initiation Fee") =>
                /\ tier.initiation[1] * m10 <= 10 * enhanced1["Initiation Fee"].n
                /\ 10 * enhanced1["Initiation Fee"].n <= tier.initiation[2] * m10

(* the record with its Prestige Level set to 'Traditional' *)
AsTraditional(club) == Put(club, "Prestige Level", PyStr(<<"Traditional">>))

(* C16: for a record whose Prestige Level is not a tier of the pricing     *)
(* table, the Monthly Dues and the Initiation Fee that the estimates can   *)
(* produce are those they can produce for the same record with Prestige    *)
(* Level 'Traditional', and what enhance_club_data fills is one of them    *)
C16_UnknownTierPricedAsTraditional ==
    ( /\ pc = "enhanced"
      /\ "Prestige Level" \in DOMAIN club_data
      /\ ~InPricing(club_data["Prestige Level"]) )
    => /\ {estimate_monthly_dues(club_data, p) : p \in Picks}
            = {estimate_monthly_dues(AsTraditional(club_data), p) : p \in Picks}
       /\ {estimate_initiation_fee(club_data, p) : p \in Picks}
            = {estimate_initiation_fee(AsTraditional(club_data), p) : p \in Picks}
       /\ Missing(club_data, "Monthly Dues") =>
            enhanced1["Monthly Dues"] \in
                {estimate_monthly_dues(AsTraditional(club_data), p) : p \in Picks}
       /\ Missing(club_data, "Initiation Fee") =>
            enhanced1["Initiation Fee"] \in
                {estimate_initiation_fee(AsTraditional(club_data), p) : p \in Picks}

(* C17: scrape_private_clubs_with_ai calls ai_extract_club_info for a URL  *)
(* exactly when the content fetched from it has length 100 or more, and    *)
(* skips the URL without the call exactly when the length is below 100     *)
C17_ExtractedFromLength100 ==
    \A k \in 1..Len(scrape_log) :
        scrape_log[k].extracted <=> scrape_log[k].len >= 100

(* the iteration got a record with a truthy Club Name and enriched it      *)
Succeeded(v) ==
    /\ v.extracted
    /\ v.answer # EmptyDict
    /\ ~Falsy(Get(v.answer, "Club Name", PyStr(<<>>)))
    /\ ~EnhanceRaises(v.answer)

(* the records scrape_private_clubs_with_ai has appended *)
Scraped == SubSeq(all_clubs, NumCurated + 1, Len(all_clubs))

(* C18: the loop visits every URL once, in the order of the list, whatever *)
(* happened at the URLs before it, and the list it builds holds, in that   *)
(* order, exactly one record for each URL that succeeded: the answer of    *)
(* the service for that URL, with that URL as Website and the three        *)
(* fillable fields set                                                     *)
C18_PerUrlFailuresIsolated ==
    /\ url_i = Len(scrape_log) + 1
    /\ \A k \in 1..Len(scrape_log) : scrape_log[k].url = k
    /\ (scraper_ok /\ pc \notin {"load", "scrape"}) =>
            Len(scrape_log) = Len(private_club_urls)
    /\ pc # "load" =>
        LET ok == SelectSeq(scrape_log, Succeeded)
        IN  /\ Len(Scraped) = Len(ok)
            /\ \A k \in 1..Len(ok) :
                /\ Scraped[k]["Website"] = PyStr(private_club_urls[ok[k].url])
                /\ DOMAIN Scraped[k] = DOMAIN ok[k].answer \cup Fillable \cup {"Website"}
                /\ \A key \in DOMAIN ok[k].answer \ {"Website"} :
                    (key \notin Fillable \/ ~Falsy(ok[k].answer[key])) =>
                        Scraped[k][key] = ok[k].answer[key]

C18_Witness ==
    /\ pc = "L24"
    /\ Len(scrape_log) = Len(private_club_urls)
    /\ scrape_log[1].extracted
    /\ scrape_log[1].answer # EmptyDict
    /\ EnhanceRaises(scrape_log[1].answer)
    /\ Succeeded(scrape_log[2])
    /\ Len(Scraped) = 1
    /\ Scraped[1]["Website"] = PyStr(private_club_urls[2])

(* the row has a Club Name that is not empty after trimming *)
HasName(r) == r["Club Name"].t = "str" /\ Strip(r["Club Name"].s) # <<>>

(* C19: every row of the output of clean_and_validate_data has a trimmed,  *)
(* non-empty Club Name and a trimmed, upper-case State, and is a row of    *)
(* the input that has a name, so that rows with an empty name and rows     *)
(* without a name are dropped; the row ('  Oak Club ', 'ca', '$1,200')     *)
(* comes out as ('Oak Club', 'CA', 1200)                                   *)
C19_NamesTrimmedStateUpper ==
    pc = "cleaned" =>
        /\ \A r \in Rows(clean_out) :
            /\ r["Club Name"].t = "str"
            /\ r["Club Name"].s # <<>>
            /\ r["Club Name"].s = Strip(r["Club Name"].s)
            /\ r["State"].t = "str"
            /\ r["State"].s = Upper(Strip(r["State"].s))
            /\ \E q \in Rows(clean_in) :
                /\ HasName(q)
                /\ r["Club Name"].s = Strip(q["Club Name"].s)
                /\ r["State"].s = Upper(Strip(AsStr(q["State"])))
        /\ \A q \in Rows(clean_in) :
            ( /\ q["Club Name"] = PyStr(<<" ", " ">> \o OakClub \o <<" ">>)
              /\ q["State"] = PyStr(<<"c","a">>)
              /\ q["Monthly Dues"] = PyStr(<<"$","1",",","2","0","0">>) )
            => \E r \in Rows(clean_out) :
                /\ r["Club Name"] = PyStr(OakClub)
                /\ r["State"] = PyStr(<<"C","A">>)
                /\ r["Monthly Dues"] = PyNum(1200)

(* the number a fee cell stands for, ok being whether it stands for one *)
ExpectedMoney(v) ==
    CASE v = PyStr(<<"$","1",",","2","0","0">>) -> [ok |-> TRUE, n |-> 1200]
      [] v = PyStr(<<"$","1","2",",","5","0","0">>) -> [ok |-> TRUE, n |-> 12500]
      [] v = PyInt(500) -> [ok |-> TRUE, n |-> 500]
      [] v = PyInt(7) -> [ok |-> TRUE, n |-> 7]
      [] v = PyInt(-5) -> [ok |-> TRUE, n |-> -5]
      [] v = PyNum(1200) -> [ok |-> TRUE, n |-> 1200]
      [] v = PyInt(25000) -> [ok |-> TRUE, n |-> 25000]
      [] v = PyInt(500000) -> [ok |-> TRUE, n |-> 500000]
      [] OTHER -> [ok |-> FALSE, n |-> 0]

(* the row passes the filters on Club Name and Monthly Dues *)
Survives(r) ==
    /\ Strip(AsStr(r["Club Name"])) # <<>>
    /\ ExpectedMoney(r["Monthly Dues"]).ok
    /\ ExpectedMoney(r["Monthly Dues"]).n >= 0

(* C20: the output of clean_and_validate_data holds, in order, the rows of *)
(* the input that pass the filters on Club Name and Monthly Dues, whatever *)
(* their Initiation Fee; Monthly Dues is the number its cell stands for    *)
(* once '$' and ',' are removed, and Initiation Fee is that number or 0    *)
(* when the cell stands for none                                           *)
C20_FeeParsingAsymmetry ==
    pc = "cleaned" =>
        LET kept == SelectSeq(clean_in, Survives)
        IN  /\ Len(clean_out) = Len(kept)
            /\ \A k \in 1..Len(kept) :
                /\ clean_out[k]["Monthly Dues"]
                        = PyNum(ExpectedMoney(kept[k]["Monthly Dues"]).n)
                /\ clean_out[k]["Initiation Fee"]
                        = PyNum(ExpectedMoney(kept[k]["Initiation Fee"]).n)

C20_Witness ==
    /\ pc = "cleaned"
    /\ Len(clean_in) = 2
    /\ clean_in[1]["Monthly Dues"] = PyStr(<<"call us">>)
    /\ clean_in[1]["Initiation Fee"] = PyInt(7)
    /\ clean_in[2]["Monthly Dues"] = PyInt(500)
    /\ clean_in[2]["Initiation Fee"] = PyStr(<<"call us">>)
    /\ Len(clean_out) = 1
    /\ clean_out[1]["Monthly Dues"] = PyNum(500)
    /\ clean_out[1]["Initiation Fee"] = PyNum(0)

(* the optional text columns *)
OptionalText ==
    {"City", "Contact Phone", "Website", "Address", "Prestige Level",
     "Membership Type", "Other Costs"}

(* C21: in the output of clean_and_validate_data no City, Contact Phone,   *)
(* Website, Address, Prestige Level, Membership Type or Other Costs is the *)
(* text 'nan', and a cell of those columns that was missing or 'nan' in    *)
(* the input of a surviving row is the empty string                        *)
C21_NoNanPlaceholder ==
    pc = "cleaned" =>
        LET kept == SelectSeq(clean_in, Survives)
        IN  /\ Len(clean_out) = Len(kept)
            /\ \A k \in 1..Len(kept), col \in OptionalText :
                /\ clean_out[k][col] # PyStr(<<"nan">>)
                /\ Strip(AsStr(kept[k][col])) = <<"nan">> =>
                        clean_out[k][col] = PyStr(<<>>)

(* C22: in the output of clean_and_validate_data every Website is empty or *)
(* starts with 'http://' or 'https://' and is never 'https://' alone; a    *)
(* Website with a scheme is the one of the input, a missing, empty or      *)
(* 'nan' one is empty, and any other one is the input's behind 'https://'  *)
C22_WebsiteSchemeOrEmpty ==
    pc = "cleaned" =>
        LET kept == SelectSeq(clean_in, Survives)
        IN  /\ Len(clean_out) = Len(kept)
            /\ \A k \in 1..Len(kept) :
                LET w == kept[k]["Website"]
                    o == clean_out[k]["Website"]
                IN  /\ o.t = "str"
                    /\ o.s = <<>> \/ Head(o.s) \in {"http://", "https://"}
                    /\ o.s # <<"https://">>
                    /\ (w.t = "str" /\ w.s # <<>> /\ Head(w.s) \in {"http://", "https://"})
                            => o = w
                    /\ w \in {NaN, PyStr(<<>>), PyStr(<<"nan">>), PyStr(<<" ">>),
                              PyStr(<<" ", "nan">>)}
                            => o = PyStr(<<>>)
                    /\ w = PyStr(<<"www.oak.com">>)
                            => o = PyStr(<<"https://", "www.oak.com">>)
                    /\ w = PyStr(<<" ", "www.oak.com", " ">>)
                            => o = PyStr(<<"https://", "www.oak.com">>)

C22_Witness ==
    /\ pc = "cleaned"
    /\ Len(clean_in) = 2
    /\ clean_in[1]["Website"] = PyStr(<<"www.oak.com">>)
    /\ clean_in[2]["Website"] = NaN
    /\ Len(clean_out) = 2
    /\ clean_out[1]["Website"] = PyStr(<<"https://", "www.oak.com">>)
    /\ clean_out[2]["Website"] = PyStr(<<>>)

(* C23: every record ai_extract_club_info returns is the empty record or   *)
(* has exactly the eleven canonical keys, whatever keys the answer of the  *)
(* service had                                                             *)
C23_ExtractedKeysCanonical ==
    \A k \in 1..Len(scrape_log) :
        scrape_log[k].extracted =>
            \/ scrape_log[k].info = EmptyDict
            \/ DOMAIN scrape_log[k].info =
                    {"Club Name", "State", "City", "Address", "Contact Phone",
                     "Website", "Prestige Level", "Membership Type",
                     "Monthly Dues", "Initiation Fee", "Other Costs"}

(* C24: within one run of scrape_private_clubs_with_ai every URL is        *)
(* fetched once and never again, whether the fetch gave text, gave nothing *)
(* or raised; the extraction is called at most once for a URL and only for *)
(* a fetch that returned content; a fetch that failed gives the empty      *)
(* string to the loop instead of raising; once the last URL is done no     *)
(* further fetch happens, and a started run does reach that point          *)
C24_OneFetchPerUrlAndTermination ==
    /\ [](\A j, k \in 1..Len(scrape_log) :
            scrape_log[j].url = scrape_log[k].url => j = k)
    /\ [](\A k \in 1..Len(scrape_log) :
            /\ scrape_log[k].url \in 1..Len(private_club_urls)
            /\ scrape_log[k].extracted =>
                    scrape_log[k].fetch = "text" /\ scrape_log[k].len > 0
            /\ scrape_log[k].fetch \in {"raised", "none"} =>
                    scrape_log[k].len = 0 /\ ~scrape_log[k].extracted)
    /\ [][/\ Len(scrape_log') \in {Len(scrape_log), Len(scrape_log) + 1}
          /\ SubSeq(scrape_log', 1, Len(scrape_log)) = scrape_log
          /\ url_i > Len(private_club_urls) => scrape_log' = scrape_log]_vars
    /\ (pc = "scrape") ~>
            (url_i > Len(private_club_urls) /\ Len(scrape_log) = Len(private_club_urls))

C24_Witness ==
    /\ pc = "L24"
    /\ url_i > Len(private_club_urls)
    /\ Len(scrape_log) = Len(private_club_urls)
    /\ scrape_log[1].fetch = "raised"
    /\ scrape_log[1].len = 0
    /\ scrape_log[2].fetch = "text"
    /\ scrape_log[2].extracted

(* the rows of t up to position k, each normalised on its own, in the      *)
(* order of t                                                              *)
RECURSIVE RowByRow(_, _)
RowByRow(t, k) ==
    IF k = 0 THEN <<>>
    ELSE RowByRow(t, k - 1) \o clean_and_validate_data(<<t[k]>>)

C26_OneSyntheticPerRegionCity ==
    pc = "L43" =>
        /\ Len(regions) = 8
        /\ \A i \in 1..Len(regions) : Len(regions[i].cities) = 4
        /\ Len(df) = Len(clubs_data) + 32
        /\ SubSeq(df, 1, Len(clubs_data)) = get_fallback_country_club_data
        /\ \A i \in 0..7, j \in 0..3 :
            LET r == df[Len(clubs_data) + 4 * i + j + 1]
            IN  /\ r["State"] = PyStr(regions[i + 1].state)
                /\ r["City"] = PyStr(regions[i + 1].cities[j + 1])
                /\ \E ct \in {club_types[k].club_type : k \in 1..Len(club_types)} :
                        r["Club Name"] = PyStr(regions[i + 1].cities[j + 1] \o <<" ">> \o ct)
        /\ \A a, b \in 1..Len(df) :
            (df[a]["Club Name"] = df[b]["Club Name"] /\ df[a]["State"] = df[b]["State"])
                => a = b
        /\ ~Empty(df)

C26_Witness ==
    /\ pc = "L43"
    /\ Len(df) = 57
    /\ df[26]["Club Name"] = PyStr(<<"Los", " ", "Angeles", " ", "Country", " ", "Club">>)
    /\ df[26]["Monthly Dues"] = PyInt(14400)
    /\ df[57]["City"] = PyStr(<<"Macon">>)
    /\ df[57]["State"] = PyStr(<<"G", "A">>)

(* the record with its State as data_loader.py:68-70 will write it in the  *)
(* final table                                                             *)
WithFinalState(club) ==
    IF "State" \in DOMAIN club
    THEN Put(club, "State", PyStr(Upper(Strip(AsStr(club["State"])))))
    ELSE club

(* C27: a Monthly Dues or an Initiation Fee that enhance_club_data fills   *)
(* is priced with the multiplier of the record's State as the final table  *)
(* shows it, trimmed and in capitals, and with the default only for a      *)
(* State that has no multiplier: a record with State 'ca' is priced as a   *)
(* record with State 'CA'                                                  *)
C27_MultiplierOfFinalState ==
    pc = "enhanced" =>
        /\ Missing(club_data, "Monthly Dues") =>
            enhanced1["Monthly Dues"] \in
                {estimate_monthly_dues(WithFinalState(club_data), p) : p \in Picks}
        /\ Missing(club_data, "Initiation Fee") =>
            enhanced1["Initiation Fee"] \in
                {estimate_initiation_fee(WithFinalState(club_data), p) : p \in Picks}

(* the records the loop of scrape_private_clubs_with_ai appends for the    *)
(* first k visits of the log when every draw takes the low end             *)
RECURSIVE ReferenceScraped(_)
ReferenceScraped(k) ==
    IF k = 0 THEN <<>>
    ELSE ReferenceScraped(k - 1)
         \o ScrapedFrom(scrape_log[k].len, scrape_log[k].answer,
                        private_club_urls[scrape_log[k].url], RndOf(0, 0))

(* the table load_country_clubs_data returns in the run that sees the same *)
(* fetches and answers, takes the same branch and draws with seed 0        *)
ReferenceTable ==
    IF caught = NoError
    THEN clean_and_validate_data(
            Aggregate(scrape_golfday_top_clubs \o scrape_invited_clubs_data(0)
                      \o ReferenceScraped(Len(scrape_log))))
    ELSE clean_and_validate_data(get_extended_club_data(0))

(* the columns no draw is written to *)
Unsampled ==
    {"Club Name", "State", "City", "Website", "Prestige Level", "Membership Type"}

(* C28: the table load_country_clubs_data returns has the same rows in the *)
(* same order, by (Club Name, State), as the table of the run that saw the *)
(* same fetches and answers and made other random draws; the two tables    *)
(* differ at most in the sampled fee, cost and contact columns             *)
C28_KeysIndependentOfDraws ==
    pc = "done" =>
        \A ref \in {ReferenceTable} :
            /\ Len(result) = Len(ref)
            /\ \A i \in 1..Len(result) : \A c \in Unsampled :
                    result[i][c] = ref[i][c]

C28_Witness ==
    /\ pc = "done"
    /\ caught = NoError
    /\ \E k \in 1..Len(scrape_log) :
        Succeeded(scrape_log[k]) /\ Missing(scrape_log[k].answer, "Monthly Dues")
    /\ \E ref \in {ReferenceTable} :
        /\ Len(result) = Len(ref)
        /\ \E i \in 1..Len(result) :
            /\ result[i]["Club Name"] = ref[i]["Club Name"]
            /\ result[i]["Monthly Dues"] # ref[i]["Monthly Dues"]

(* C29: a call of get_comprehensive_club_data that returns gives a table   *)
(* that is not empty, with the curated records in it whatever the network  *)
(* gave; so the fallback call of line 26, which needs an empty table from  *)
(* the primary source, is never taken, and every call of the fallback      *)
(* source follows an exception caught at line 37                           *)
C29_FallbackOnlyAfterException ==
    /\ pc = "L24" =>
            /\ ~Empty(df)
            /\ \A i \in 1..Len(top_clubs_data) :
                    \E k \in 1..Len(df) : RawKeyEq(df[k], top_clubs_data[i])
    /\ \A k \in 1..Len(calls) :
            /\ calls[k].fn = "primary" => calls[k].out # "empty"
            /\ calls[k].fn = "fallback" =>
                    caught # NoError /\ k > 1 /\ calls[k - 1] = Call("primary", "raised")
    /\ ~ENABLED FallbackOnEmpty(ExtendedOutcomes)

C29_Witness ==
    /\ pc = "L24"
    /\ Len(scrape_log) = Len(private_club_urls)
    /\ \A k \in 1..Len(scrape_log) : scrape_log[k].len = 0
    /\ Len(all_clubs) = Len(top_clubs_data) + Len(invited_clubs_data)
    /\ calls = <<Call("primary", "rows")>>
    /\ ~Empty(df)

(* C30: clean_and_validate_data applied to its own output gives that       *)
(* output again: the same rows in the same order with the same values, no  *)
(* row dropped by the second pass, no second 'https://' in front of a      *)
(* Website, no parsed fee changed                                          *)
C30_CleanIdempotent ==
    pc = "cleaned twice" => clean_out2 = clean_out

C30_Witness ==
    /\ pc = "cleaned twice"
    /\ Len(clean_in) = 2
    /\ clean_in[1]["Website"] = PyStr(<<"www.oak.com">>)
    /\ clean_in[1]["Monthly Dues"] = PyStr(<<"$","1",",","2","0","0">>)
    /\ clean_in[2]["Monthly Dues"] = PyNum(1200)
    /\ clean_in[2]["Initiation Fee"] = PyInt(-5)
    /\ Len(clean_out) = 2
    /\ clean_out[1]["Website"] = PyStr(<<"https://", "www.oak.com">>)
    /\ clean_out[1]["Monthly Dues"] = PyNum(1200)
    /\ clean_out[1]["Initiation Fee"] = PyNum(12500)
    /\ clean_out[2]["Initiation Fee"] = PyNum(-5)
    /\ clean_out2 = clean_out

=============================================================================
